---------------------------- MODULE Spec2Model ----------------------------
(***************************************************************************)
(* State-machine model of the expressive-webchat ConversationOrchestrator  *)
(* (src/python/expressive-webchat/src/orchestrator.py) together with the   *)
(* AvatarTalkClient it owns (avatartalk_client.py) and the endpoint that   *)
(* drives it (app.py).                                                     *)
(*                                                                         *)
(* The program runs on one asyncio event loop: every action below is the   *)
(* code executed by one task between two suspension points (awaits that    *)
(* really suspend).  Tasks: the endpoint task (start_session,              *)
(* process_audio, stop_session), the Deepgram worker, the Deepgram         *)
(* listener (detector callbacks), the Nova keep-alive, the tracked         *)
(* _handle_user_turn tasks and the AvatarTalk listen loop (renderer        *)
(* callbacks).                                                             *)
(***************************************************************************)
EXTENDS Integers, Sequences, FiniteSets, TLC

(***************************************************************************)
(* Bounds of the model.                                                    *)
(***************************************************************************)
MaxTurns == 2
MaxFrames == 2
MaxBuf == 1
MaxSentences == 2
MaxOrphans == 1
MaxCalls == 33
MaxBlanks == 2
\* ReplySpec: the streams of one behaviour, the length of the long reply, the
\* longest reply that is split in every way, the token sizes of a longer one
MaxStreams == 2
LongLen == 500
MaxSplitLen == 60
LongTokenSizes == {50, 101, 401}

(***************************************************************************)
(* Values.                                                                 *)
(***************************************************************************)
\* asyncio.Queue element put by stop_session: the None sentinel
StopSentinel == 0
\* self._dg_audio_queue is None
NoQueue == <<-1>>
\* what a step sends to the detector: nothing, the audio frame f
\* (connection.send_media), the Finalize control message
Nothing == <<>>
Media(f) == <<"media", f>>
Finalize == <<"Finalize">>
\* transcripts a detector message can carry: "", " " and "a"
Texts == {<<>>, <<" ">>, <<"a">>}
ASRModels == {"flux", "nova"}
thinking_states == {"silence_to_pregen", "pregen_video", "pregen_to_dynamic"}
speaking_states == {"dynamic_speech", "dynamic_to_silence"}

VARIABLES
    \* ---- endpoint task (app.py) ----
    app_pc,               \* where conversation_endpoint is with start_session
    stop_pc,              \* where stop_session is
    stop_list,            \* list(self._pending_tasks) being iterated by stop_session
    \* ---- ConversationOrchestrator fields ----
    session_active,
    is_listening,
    avatar_turn_active,
    ignore_transcripts,   \* self._ignore_transcripts
    pause_audio_sending,  \* self._pause_audio_sending
    audio_configured,
    asr_model,
    use_pregen,
    transcript_buffer,
    dg_audio_queue,       \* self._dg_audio_queue: NoQueue or the queued items
    dg_worker_task,       \* self._dg_worker_task is not None
    dg_listen_task,       \* self.dg_listen_task is not None
    dg_connection,        \* self.dg_connection is not None
    pending_tasks,        \* self._pending_tasks
    \* ---- tasks on the event loop ----
    worker_pc,            \* the _connect_deepgram_* task
    listen_pc,            \* the connection.start_listening() task
    keepalive_pc,         \* the _nova_keepalive_loop task
    dg_open,              \* the Deepgram socket is open
    tasks,                \* the _handle_user_turn tasks created so far
    \* ---- AvatarTalkClient fields ----
    av_connected,         \* self._connected
    av_closing,           \* self._closing
    av_ws,                \* self.ws is not None
    av_listen_task,       \* self._listen_task is not None
    av_listen_pc,         \* the _listen_loop task
    av_orphans,           \* connections with a running _listen_loop that self.ws and
                          \* self._listen_task no longer refer to
    \* ---- observation of the traffic ----
    next_frame,           \* identity of the next audio frame from the browser
    status_out,           \* what the last step sent to the browser: the status pushed
                          \* through on_status_change, or "error" for an error event
    av_out,               \* message sent to the renderer in the last step
    dg_out,               \* what was sent to the detector in the last step
    dg_fatal_error,       \* a FatalError event of the detector was handled (line 272)
    listening_shown,      \* the last status or error event sent to the browser is
                          \* the status 'listening'
    ready_before_active,  \* a ready_to_listen was handled while start_session was
                          \* awaiting the send of session_start
    \* ---- the conversation history ----
    conversation_history, \* self.conversation_history
    history_log,          \* every message _add_to_history has kept, in order
    history_calls,        \* number of _add_to_history calls so far
    \* ---- one run of _stream_response ----
    stream_pc,            \* "idle", "open" (iterating the backend's stream), "done"
    language,             \* self.language
    reply_all,            \* the reply the backend streams in this run
    reply_rest,           \* the part of it not yet delivered as tokens
    gen,                  \* the generator's accumulator and locals, and what it yielded
    stream_failed,        \* "none", or the failure of the backend: "timeout", "error"
    \* ---- the expression of the replies ----
    expressive_mode,      \* self.expressive_mode
    current_expression,   \* self.current_expression
    session_expression,   \* the expression start_session was called with
    first_sentence,       \* the local of _handle_user_turn
    consumed,             \* how many yielded pairs the loop of the turn has taken
    input_expression,     \* the expression of the turn's text_input, <<>> before it
    \* ---- AvatarTalkConnector (livestream/avatartalk.py) ----
    connector,            \* the fields of the connector, and the connections made
    callers               \* the tasks that use it: where each is in send / receive

flagVars == <<session_active, is_listening, avatar_turn_active, ignore_transcripts,
              pause_audio_sending>>
cfgVars == <<audio_configured, asr_model, use_pregen>>
dgVars == <<dg_audio_queue, dg_worker_task, dg_listen_task, dg_connection,
            worker_pc, listen_pc, keepalive_pc, dg_open>>
avVars == <<av_connected, av_closing, av_ws, av_listen_task, av_listen_pc, av_orphans>>
appVars == <<app_pc, stop_pc, stop_list>>
obsVars == <<next_frame, status_out, av_out, dg_out, dg_fatal_error, listening_shown,
            ready_before_active>>
histVars == <<conversation_history, history_log, history_calls>>
\* the state of the reply processing, which the steps of the session model
\* leave alone: it is modelled by the specifications of its own below
replyVars == <<stream_pc, language, reply_all, reply_rest, gen, stream_failed>>
\* the expression handling of a turn, modelled by a specification of its own
exprVars == <<expressive_mode, current_expression, session_expression, first_sentence,
              consumed, input_expression>>
\* the livestream's connector and its callers, modelled by a specification of
\* their own
connVars == <<connector, callers>>
pureVars == <<histVars, replyVars, exprVars, connVars>>

(***************************************************************************)
(* String helpers: Python strings are sequences of one-character strings.  *)
(***************************************************************************)
\* str.isspace() for the characters of the model
IsSpace(c) == c \in {" ", "\n", "\t"}

RECURSIVE LStrip(_)
LStrip(s) == IF s # <<>> /\ IsSpace(Head(s)) THEN LStrip(Tail(s)) ELSE s

RECURSIVE RStrip(_)
RStrip(s) == IF s # <<>> /\ IsSpace(s[Len(s)]) THEN RStrip(SubSeq(s, 1, Len(s) - 1)) ELSE s

\* str.strip()
Strip(s) == RStrip(LStrip(s))

\* " ".join(list)
RECURSIVE Join(_)
Join(l) == IF l = <<>> THEN <<>>
           ELSE IF Len(l) = 1 THEN l[1]
           ELSE l[1] \o <<" ">> \o Join(Tail(l))

\* the program state proper: everything but the observation of the traffic
progVars == <<appVars, flagVars, cfgVars, transcript_buffer, dgVars, pending_tasks, tasks,
              avVars>>
vars == <<progVars, obsVars, pureVars>>

\* What one step puts out: the status it pushes through on_status_change,
\* the message it sends to the renderer, what it sends to the detector.
Outputs(status, av, dg) ==
    /\ status_out' = status
    /\ listening_shown' = IF status = "none" THEN listening_shown ELSE status = "listening"
    /\ av_out' = av
    /\ dg_out' = dg
    /\ UNCHANGED pureVars

Out(status, av, dg) ==
    Outputs(status, av, dg) /\ UNCHANGED <<dg_fatal_error, ready_before_active>>

\* a turn task that has not finished
Live(t) == tasks[t].pc \notin {"done", "cancelled", "raised"}
WorkerLive == worker_pc \in {"connect", "loop", "linger", "cancelling"}

\* stop_session is running between two awaits that did not suspend: no other
\* task gets the event loop
StopBusy == stop_pc \in {"run_listener", "run_tasks"}
\* the endpoint task is inside start_session or stop_session
EndpointFree == app_pc \in {"new", "running", "failed"} /\ stop_pc \in {"idle", "returned"}

(***************************************************************************)
(* SentenceAccumulator (943-1025).  Strings are sequences of characters.   *)
(***************************************************************************)
\* line 979: the lookahead buffer is given up beyond this length
PrefixLimit == 100
\* line 1004: the running buffer is flushed beyond this length
FlushLimit == 400

\* the characters \w matches
WordChars == {"a", "b", "c", "d", "e", "f", "g", "h", "i", "j", "k", "l", "m", "n", "o",
              "p", "q", "r", "s", "t", "u", "v", "w", "x", "y", "z", "A", "H", "O", "_",
              "0", "1", "2", "3", "4"}
\* the characters [.!?] matches
EndChars == {".", "!", "?"}
\* the literal "expression" of EXPRESSION_PATTERN, with its quotes
ExprKey == <<"\"", "e", "x", "p", "r", "e", "s", "s", "i", "o", "n", "\"">>

\* \s* from position i: the position of the first character it does not take
RECURSIVE SkipSpace(_, _)
SkipSpace(s, i) == IF i <= Len(s) /\ IsSpace(s[i]) THEN SkipSpace(s, i + 1) ELSE i

\* \w* from position i
RECURSIVE SkipWord(_, _)
SkipWord(s, i) == IF i <= Len(s) /\ s[i] \in WordChars THEN SkipWord(s, i + 1) ELSE i

\* the literal lit at position i: the position after it, or 0 if it is not
\* there (0 also stands for an earlier part of the pattern that did not match)
Lit(s, i, lit) ==
    IF i > 0 /\ i + Len(lit) - 1 <= Len(s) /\ SubSeq(s, i, i + Len(lit) - 1) = lit
    THEN i + Len(lit)
    ELSE 0

\* EXPRESSION_PATTERN.match(s) (line 952): ^\s*\{\s*"expression"\s*:\s*"(\w+)"\s*\}\s*\n?
\* `end` is the position after the match; the greedy \s* before \n? takes
\* the newlines too.
ExpressionMatch(s) ==
    LET a == Lit(s, SkipSpace(s, 1), <<"{">>)
        b == IF a = 0 THEN 0 ELSE Lit(s, SkipSpace(s, a), ExprKey)
        c == IF b = 0 THEN 0 ELSE Lit(s, SkipSpace(s, b), <<":">>)
        d == IF c = 0 THEN 0 ELSE Lit(s, SkipSpace(s, c), <<"\"">>)
        e == IF d = 0 THEN 0 ELSE SkipWord(s, d)
        f == IF d = 0 \/ e = d THEN 0 ELSE Lit(s, e, <<"\"">>)
        g == IF f = 0 THEN 0 ELSE Lit(s, SkipSpace(s, f), <<"}">>)
    IN [found |-> g # 0,
        expression |-> IF g # 0 THEN SubSeq(s, d, e - 1) ELSE <<>>,
        end |-> IF g # 0 THEN SkipSpace(s, g) ELSE 0]

\* SentenceAccumulator.__init__ (954-957)
NewAccumulator == [buffer |-> <<>>, json_prefix_buffer |-> <<>>, json_complete |-> FALSE]

\* "\n" in s
HasNewline(s) == \E i \in 1..Len(s) : s[i] = "\n"

\* try_extract_expression (959-986): the accumulator after the call, the
\* expression (<<>> for None) and the remaining content it returns
TryExtractExpression(acc, content) ==
    IF acc.json_complete
    THEN [acc |-> acc, expression |-> <<>>, remaining |-> content]
    ELSE LET buf == acc.json_prefix_buffer \o content
             m == ExpressionMatch(buf)
             closed == [acc EXCEPT !.json_complete = TRUE, !.json_prefix_buffer = <<>>]
         IN IF m.found
            THEN [acc |-> closed, expression |-> m.expression,
                  remaining |-> SubSeq(buf, m.end, Len(buf))]
            ELSE IF Len(buf) > PrefixLimit \/ HasNewline(buf)
            THEN [acc |-> closed, expression |-> <<>>, remaining |-> buf]
            ELSE [acc |-> [acc EXCEPT !.json_prefix_buffer = buf], expression |-> <<>>,
                  remaining |-> <<>>]

\* buffer_has_expression_prefix (988-990)
BufferHasExpressionPrefix(acc) == acc.json_prefix_buffer # <<>> /\ ~acc.json_complete

\* SENTENCE_END_PATTERN.search(s) from position i (line 950): ([.!?])(?:\s+|$).
\* The position after the first match, or 0.
IsSentenceEnd(s, i) == s[i] \in EndChars /\ (i = Len(s) \/ IsSpace(s[i + 1]))

SentenceEnd(s) ==
    IF \E i \in 1..Len(s) : IsSentenceEnd(s, i)
    THEN SkipSpace(s, 1 + CHOOSE i \in 1..Len(s) :
                            IsSentenceEnd(s, i) /\ \A j \in 1..(i - 1) : ~IsSentenceEnd(s, j))
    ELSE 0

\* the loop of add_chunk (1001-1015) on the buffer
RECURSIVE AddChunkLoop(_, _)
AddChunkLoop(buffer, sentences) ==
    LET end == SentenceEnd(buffer)
    IN IF end = 0
       THEN IF Len(buffer) > FlushLimit
            THEN [buffer |-> <<>>, sentences |-> Append(sentences, buffer)]
            ELSE [buffer |-> buffer, sentences |-> sentences]
       ELSE LET sentence == Strip(SubSeq(buffer, 1, end - 1))
            IN AddChunkLoop(SubSeq(buffer, end, Len(buffer)),
                            IF sentence # <<>> THEN Append(sentences, sentence)
                            ELSE sentences)

\* add_chunk (992-1017): the accumulator after the call and the sentences
AddChunk(acc, content) ==
    IF content = <<>>
    THEN [acc |-> acc, sentences |-> <<>>]
    ELSE LET r == AddChunkLoop(acc.buffer \o content, <<>>)
         IN [acc |-> [acc EXCEPT !.buffer = r.buffer], sentences |-> r.sentences]

\* flush (1019-1024): the string it returns
Flush(acc) == Strip(acc.json_prefix_buffer) \o Strip(acc.buffer)

(***************************************************************************)
(* The generator _stream_response (745-840): its locals and what it has    *)
(* yielded, a sequence of (sentence, expression) with <<>> for None.       *)
(***************************************************************************)
\* lines 752 and 793-796
NewGen == [acc |-> NewAccumulator, extracted_expression |-> <<>>,
           expression_extracted |-> FALSE, full_response_text |-> <<>>, yielded |-> <<>>]

\* lines 817-822: the sentences are yielded, the expression with the first
RECURSIVE YieldAll(_, _)
YieldAll(g, sentences) ==
    IF sentences = <<>> THEN g
    ELSE YieldAll([g EXCEPT !.full_response_text = @ \o Head(sentences) \o <<" ">>,
                            !.yielded = Append(@, [sentence |-> Head(sentences),
                                                    expression |-> g.extracted_expression]),
                            !.extracted_expression = <<>>],
                  Tail(sentences))

\* lines 807-814: the content that goes on to add_chunk after the tag search:
\* what try_extract_expression returned if it found the tag, the token otherwise
ContentAfterSearch(found, content, remaining) == IF found THEN remaining ELSE content

\* lines 798-822: one token of the backend's stream
ChunkResult(g, content) ==
    IF content = <<>> THEN g
    ELSE IF g.expression_extracted
    THEN LET a == AddChunk(g.acc, content)
         IN YieldAll([g EXCEPT !.acc = a.acc], a.sentences)
    ELSE LET t == TryExtractExpression(g.acc, content)
             found == t.expression # <<>>
         IN IF ~found /\ BufferHasExpressionPrefix(t.acc)
            THEN [g EXCEPT !.acc = t.acc]
            ELSE LET a == AddChunk(t.acc, ContentAfterSearch(found, content, t.remaining))
                 IN YieldAll([g EXCEPT !.acc = a.acc,
                                       !.extracted_expression =
                                            IF found THEN t.expression ELSE @,
                                       !.expression_extracted = found],
                             a.sentences)

\* lines 824-829: the end of the stream
EndResult(g) ==
    LET final == Flush(g.acc)
        flushed == [g.acc EXCEPT !.json_prefix_buffer = <<>>, !.buffer = <<>>]
    IN IF Strip(final) # <<>>
       THEN [g EXCEPT !.acc = flushed,
                      !.full_response_text = @ \o final \o <<" ">>,
                      !.yielded = Append(@, [sentence |-> final, expression |-> <<>>])]
       ELSE [g EXCEPT !.acc = flushed]

\* ---- the livestream's connector (livestream/avatartalk.py) ----
\* connections made in a run, and calls of send / receive a task makes
MaxConns == 3
MaxOps == 2
\* the tasks of core.py that use the connector: the narration loop sends a
\* segment and receives its answer, the healthcheck loop sends "!!!Close!!!"
\* through close()
Callers == {"narration", "healthcheck"}
OpsOf(c) == IF c = "narration" THEN {"send", "receive"} ELSE {"send"}
\* the values a run constructs the connector with; the defaults are 5, 1.0
\* and 30.0, and the smaller limits make the cap on the backoff act
ReconnectAttempts == {0, 3, 5}
InitialBackoffs == {1, 2}
MaxBackoffs == {3, 30}
\* the connector before __init__ has run; ws is 0 for None, else the number
\* of the connection; open holds the connections that are not closed
NewConnector == [constructed |-> FALSE, max_reconnect_attempts |-> 5,
                 initial_backoff |-> 1, max_backoff |-> 30,
                 ws |-> 0, is_reconnecting |-> FALSE, open |-> {}, made |-> 0]
\* a task that is in no call of the connector
NoCall == [pc |-> "idle", op |-> "none", ops |-> 0, ws |-> 0, attempt |-> 0,
           backoff |-> 0, waits |-> <<>>, connects |-> 0, returns |-> 0,
           result |-> "none", outcome |-> "none"]

(***************************************************************************)
(* ConversationOrchestrator.__init__ and AvatarTalkClient.__init__         *)
(***************************************************************************)
Init ==
    /\ app_pc = "new"
    /\ stop_pc = "idle"
    /\ stop_list = {}
    /\ session_active = FALSE
    /\ is_listening = FALSE
    /\ avatar_turn_active = FALSE
    /\ ignore_transcripts = FALSE
    /\ pause_audio_sending = FALSE
    /\ audio_configured = FALSE
    /\ asr_model = "flux"
    /\ use_pregen = TRUE
    /\ transcript_buffer = <<>>
    /\ dg_audio_queue = NoQueue
    /\ dg_worker_task = FALSE
    /\ dg_listen_task = FALSE
    /\ dg_connection = FALSE
    /\ pending_tasks = {}
    /\ worker_pc = "none"
    /\ listen_pc = "none"
    /\ keepalive_pc = "none"
    /\ dg_open = FALSE
    /\ tasks = <<>>
    /\ av_connected = FALSE
    /\ av_closing = FALSE
    /\ av_ws = FALSE
    /\ av_listen_task = FALSE
    /\ av_listen_pc = "none"
    /\ av_orphans = 0
    /\ next_frame = 1
    /\ status_out = "none"
    /\ av_out = "none"
    /\ dg_out = Nothing
    /\ dg_fatal_error = FALSE
    /\ listening_shown = FALSE
    /\ ready_before_active = FALSE
    /\ conversation_history = <<>>
    /\ history_log = <<>>
    /\ history_calls = 0
    /\ stream_pc = "idle"
    /\ language = "en"
    /\ reply_all = <<>>
    /\ reply_rest = <<>>
    /\ gen = NewGen
    /\ stream_failed = "none"
    /\ expressive_mode = FALSE
    /\ current_expression = <<"n", "e", "u", "t", "r", "a", "l">>  \* Expression.default()
    /\ session_expression = <<>>
    /\ first_sentence = TRUE
    /\ consumed = 0
    /\ input_expression = <<>>
    /\ connector = NewConnector
    /\ callers = [c \in Callers |-> NoCall]

(***************************************************************************)
(* start_session (orchestrator.py 81-144) with AvatarTalkClient.connect    *)
(* and AvatarTalkClient.start_session.                                     *)
(***************************************************************************)
\* lines 98-130: configuration, then the await of avatartalk.connect
StartSession(asr, pregen) ==
    /\ app_pc = "new" /\ stop_pc = "idle"
    /\ app_pc' = "connecting"
    /\ asr_model' = asr
    /\ use_pregen' = pregen
    /\ UNCHANGED <<stop_pc, stop_list, flagVars, audio_configured, transcript_buffer, dgVars,
                   pending_tasks, tasks, avVars, next_frame>>
    /\ Out("none", "none", Nothing)

\* start_session called again on the started session: nothing in lines 81-130
\* looks at session_active, so the call configures and connects as the first
StartSessionAgain(asr, pregen) ==
    /\ app_pc = "running" /\ stop_pc = "idle"
    /\ session_active
    /\ av_orphans < MaxOrphans
    /\ app_pc' = "connecting"
    /\ asr_model' = asr
    /\ use_pregen' = pregen
    /\ UNCHANGED <<stop_pc, stop_list, flagVars, audio_configured, transcript_buffer, dgVars,
                   pending_tasks, tasks, avVars, next_frame>>
    /\ Out("none", "none", Nothing)

\* connect succeeded (avatartalk_client.py 86-98); callbacks are wired and
\* session_start is being sent (orchestrator.py 131-142)
StartConnected ==
    /\ app_pc = "connecting"
    /\ app_pc' = "starting"
    /\ av_ws' = TRUE
    /\ av_connected' = TRUE
    /\ av_closing' = FALSE
    /\ av_listen_task' = TRUE
    /\ av_listen_pc' = "running"
    /\ av_orphans' = IF av_listen_task /\ av_listen_pc = "running"
                     THEN av_orphans + 1 ELSE av_orphans
    /\ UNCHANGED <<stop_pc, stop_list, flagVars, cfgVars, transcript_buffer, dgVars,
                   pending_tasks, tasks, next_frame>>
    /\ Out("none", "session_start", Nothing)

\* connect timed out or failed (avatartalk_client.py 99-104): ConnectionError
StartConnectFailed ==
    /\ app_pc = "connecting"
    /\ app_pc' = "failed"
    /\ UNCHANGED <<stop_pc, stop_list, flagVars, cfgVars, transcript_buffer, dgVars,
                   pending_tasks, tasks, avVars, next_frame>>
    /\ Out("error", "none", Nothing)

\* the send of session_start returned (line 144), or raised because the
\* socket closed meanwhile
StartDone ==
    /\ app_pc = "starting"
    /\ IF av_connected
       THEN app_pc' = "running" /\ session_active' = TRUE
       ELSE app_pc' = "failed" /\ session_active' = session_active
    /\ UNCHANGED <<stop_pc, stop_list, is_listening, avatar_turn_active, ignore_transcripts,
                   pause_audio_sending, cfgVars, transcript_buffer, dgVars, pending_tasks,
                   tasks, avVars, next_frame>>
    /\ Out(IF av_connected THEN "none" ELSE "error", "none", Nothing)

(***************************************************************************)
(* set_audio_config (231-238)                                              *)
(***************************************************************************)
SetAudioConfig ==
    /\ app_pc = "running" /\ stop_pc = "idle"
    /\ audio_configured' = TRUE
    /\ UNCHANGED <<appVars, flagVars, asr_model, use_pregen, transcript_buffer, dgVars,
                   pending_tasks, tasks, avVars, next_frame>>
    /\ Out("none", "none", Nothing)

(***************************************************************************)
(* The text frames of the control loop of conversation_endpoint (app.py    *)
(* 188-212).  A frame is described by what the loop looks at: whether the  *)
(* text is JSON and whether the JSON is an object, the "type" of the       *)
(* object, and its "data".                                                 *)
(***************************************************************************)
Forms == {"not_json", "not_object", "object"}
Types == {"audio_config", "buffer_status", "other"}
Payloads == {"absent", "not_object", "fields_missing", "fields_wrong_type", "fields_valid"}

\* the frame makes the loop raise: .get on a value that is not a dict
\* (lines 194-195, 198-199, 205-206), int() in set_audio_config
\* (orchestrator.py 232-235) or float() (line 209) on a value of another type
ControlRaises(form, type, data) ==
    \/ form = "not_object"
    \/ /\ form = "object"
       /\ type \in {"audio_config", "buffer_status"}
       /\ data \in {"not_object", "fields_wrong_type"}

\* line 204 is reached and returns: set_audio_config skips the fields that
\* are None
ControlConfigures(form, type, data) ==
    /\ form = "object"
    /\ type = "audio_config"
    /\ data \in {"absent", "fields_missing", "fields_valid"}

\* lines 207-210 with send_buffer_status (orchestrator.py 221-229)
ControlForwards(form, type, data) ==
    /\ form = "object"
    /\ type = "buffer_status"
    /\ data = "fields_valid"
    /\ av_ws /\ av_connected

\* one text frame.  An exception leaves the loop: the handler of lines
\* 216-223 sends the error event, and the finally block goes on to
\* stop_session ("closing").
ControlMessage(form, type, data) ==
    /\ app_pc = "running" /\ stop_pc = "idle"
    /\ app_pc' = IF ControlRaises(form, type, data) THEN "closing" ELSE app_pc
    /\ audio_configured' = IF ControlConfigures(form, type, data) THEN TRUE
                           ELSE audio_configured
    /\ UNCHANGED <<stop_pc, stop_list, flagVars, asr_model, use_pregen, transcript_buffer,
                   dgVars, pending_tasks, tasks, avVars, next_frame>>
    /\ Out(IF ControlRaises(form, type, data) THEN "error" ELSE "none",
           IF ControlForwards(form, type, data) THEN "buffer_status" ELSE "none",
           Nothing)

(***************************************************************************)
(* process_audio (191-219) with _ensure_deepgram_connection (566-581).     *)
(* Neither the uncontended lock nor the put on an unbounded queue          *)
(* suspends, so the call is one step.                                      *)
(***************************************************************************)
\* line 193
AudioAccepted == session_active /\ is_listening

\* a faulty variant of the step below: a worker is created for every frame
EnsureWorkerAlways ==
    /\ dg_worker_task' = TRUE
    /\ worker_pc' = "connect"
    /\ dg_audio_queue' = IF dg_audio_queue = NoQueue THEN <<next_frame>>
                         ELSE Append(dg_audio_queue, next_frame)

\* lines 568-581: the worker task is created unless one is still running
EnsureWorker ==
    IF dg_worker_task /\ WorkerLive
    THEN UNCHANGED <<dg_worker_task, worker_pc>> /\ dg_audio_queue' = Append(dg_audio_queue, next_frame)
    ELSE /\ dg_worker_task' = TRUE
         /\ worker_pc' = "connect"
         /\ dg_audio_queue' = IF dg_audio_queue = NoQueue THEN <<next_frame>>
                              ELSE Append(dg_audio_queue, next_frame)

\* a faulty variant of process_audio below: the frame is queued although no
\* audio_config has been received
ProcessAudioUnconfigured ==
    /\ EndpointFree
    /\ next_frame <= MaxFrames
    /\ next_frame' = next_frame + 1
    /\ IF AudioAccepted
       THEN EnsureWorker
       ELSE UNCHANGED <<dg_audio_queue, dg_worker_task, worker_pc>>
    /\ UNCHANGED <<appVars, flagVars, cfgVars, transcript_buffer, dg_listen_task, dg_connection,
                   listen_pc, keepalive_pc, dg_open, pending_tasks, tasks, avVars>>
    /\ Out("none", "none", Nothing)

ProcessAudio ==
    /\ EndpointFree
    /\ next_frame <= MaxFrames
    /\ next_frame' = next_frame + 1
    /\ IF AudioAccepted /\ audio_configured
       THEN EnsureWorker
       ELSE UNCHANGED <<dg_audio_queue, dg_worker_task, worker_pc>>
    /\ UNCHANGED <<appVars, flagVars, cfgVars, transcript_buffer, dg_listen_task, dg_connection,
                   listen_pc, keepalive_pc, dg_open, pending_tasks, tasks, avVars>>
    /\ Out("none", "none", Nothing)

(***************************************************************************)
(* The Deepgram worker: _connect_deepgram_flux (240-371) and               *)
(* _connect_deepgram_nova (373-552).                                       *)
(***************************************************************************)
\* lines 255-334 / 393-512: the connection opened; handlers registered, the
\* listener task started and, for Nova, the keep-alive task (line 510)
WorkerConnected ==
    /\ ~StopBusy
    /\ worker_pc = "connect"
    /\ worker_pc' = "loop"
    /\ dg_connection' = TRUE
    /\ dg_open' = TRUE
    /\ dg_listen_task' = TRUE
    /\ listen_pc' = "running"
    /\ keepalive_pc' = IF asr_model = "flux" THEN keepalive_pc ELSE "running"
    /\ UNCHANGED <<appVars, flagVars, cfgVars, transcript_buffer, dg_audio_queue,
                   dg_worker_task, pending_tasks, tasks, avVars, next_frame>>
    /\ Out("none", "none", Nothing)

\* lines 358-371 / 539-552: connecting raised; the finally block runs
WorkerConnectFailed ==
    /\ ~StopBusy
    /\ worker_pc = "connect"
    /\ worker_pc' = "done"
    /\ dg_listen_task' = FALSE
    /\ listen_pc' = IF listen_pc = "running" THEN "done" ELSE listen_pc
    /\ dg_connection' = FALSE
    /\ UNCHANGED <<appVars, flagVars, cfgVars, transcript_buffer, dg_audio_queue,
                   dg_worker_task, keepalive_pc, dg_open, pending_tasks, tasks, avVars,
                   next_frame>>
    /\ Out("none", "none", Nothing)

\* lines 341-344 / 519-522: the audio gate checked before send_media
GateOpen == ~pause_audio_sending

\* lines 529-534: the normal exit of the Nova send loop cancels the keep-alive
LoopExitKeepalive == IF keepalive_pc = "running" THEN "done" ELSE keepalive_pc

\* lines 337-353 / 515-527: one iteration of the send loop.  The loop
\* condition is evaluated again after the iteration.
WorkerGet ==
    /\ ~StopBusy
    /\ worker_pc = "loop"
    /\ dg_audio_queue # NoQueue /\ dg_audio_queue # <<>>
    /\ LET chunk == Head(dg_audio_queue)
           sendFails == ~dg_open
           leaves == \/ chunk = StopSentinel
                     \/ (GateOpen /\ sendFails)
                     \/ ~session_active
           sent == chunk # StopSentinel /\ GateOpen /\ ~sendFails
       IN /\ dg_audio_queue' = Tail(dg_audio_queue)
          /\ worker_pc' = IF leaves THEN "linger" ELSE "loop"
          /\ keepalive_pc' = IF leaves THEN LoopExitKeepalive ELSE keepalive_pc
          /\ UNCHANGED <<appVars, flagVars, cfgVars, transcript_buffer, dg_worker_task,
                         dg_listen_task, dg_connection, listen_pc, dg_open, pending_tasks,
                         tasks, avVars, next_frame>>
          /\ Out("none", "none", IF sent THEN Media(chunk) ELSE Nothing)

\* lines 355-371 / 536-552: after the 0.5 s sleep the connection is closed and
\* the finally block cancels the listener
WorkerExit ==
    /\ ~StopBusy
    /\ worker_pc = "linger"
    /\ worker_pc' = "done"
    /\ dg_open' = FALSE
    /\ listen_pc' = IF listen_pc = "running" THEN "done" ELSE listen_pc
    /\ dg_listen_task' = FALSE
    /\ dg_connection' = FALSE
    /\ UNCHANGED <<appVars, flagVars, cfgVars, transcript_buffer, dg_audio_queue,
                   dg_worker_task, keepalive_pc, pending_tasks, tasks, avVars, next_frame>>
    /\ Out("none", "none", Nothing)

\* what the cancellation of the worker does to the keep-alive task: the
\* CancelledError leaves the send loop past lines 529-534, so nothing
KeepaliveOnWorkerCancel == keepalive_pc

\* the worker receives the CancelledError of stop_session (line 161) at its
\* await: the connection context closes the socket, the finally block
\* (360-371 / 541-552) cancels the listener
WorkerCancelled ==
    /\ ~StopBusy
    /\ worker_pc = "cancelling"
    /\ worker_pc' = "cancelled"
    /\ dg_open' = FALSE
    /\ listen_pc' = IF listen_pc = "running" THEN "done" ELSE listen_pc
    /\ dg_listen_task' = FALSE
    /\ dg_connection' = FALSE
    /\ keepalive_pc' = KeepaliveOnWorkerCancel
    /\ UNCHANGED <<appVars, flagVars, cfgVars, transcript_buffer, dg_audio_queue,
                   dg_worker_task, pending_tasks, tasks, avVars, next_frame>>
    /\ Out("none", "none", Nothing)

\* _nova_keepalive_loop (554-564): after the sleep the send on the closed
\* socket raises and the loop ends; on an open socket it goes round
KeepaliveTick ==
    /\ ~StopBusy
    /\ keepalive_pc = "running"
    /\ keepalive_pc' = IF dg_open THEN "running" ELSE "done"
    /\ UNCHANGED <<appVars, flagVars, cfgVars, transcript_buffer, dg_audio_queue,
                   dg_worker_task, dg_listen_task, dg_connection, worker_pc, listen_pc,
                   dg_open, pending_tasks, tasks, avVars, next_frame>>
    /\ Out("none", "none", Nothing)

(***************************************************************************)
(* Detector callbacks: on_message / on_close of the Flux connection        *)
(* (263-320) and of the Nova connection (408-495).  They are plain         *)
(* functions called by the listener task: each runs to its end.            *)
(***************************************************************************)
\* a faulty variant of the check below: the callbacks never ignore a transcript
NeverIgnoring == FALSE

\* lines 282, 420, 463: transcripts are ignored during the avatar's turn
IgnoringTranscripts == ignore_transcripts

\* The coroutine _handle_user_turn(final_transcript) as created.  `sent` counts
\* the non-blank sentences submitted to the renderer: first_sentence (line
\* 689) is sent = 0.  The transcript is only read when the generation request
\* is built, which this model leaves to the backend's answer.
NewTask == [pc |-> "sched", sent |-> 0]

\* a faulty variant of the acceptance below: the audio gate is left open
AcceptTurnNoPause(text) ==
    /\ ignore_transcripts' = TRUE
    /\ pause_audio_sending' = pause_audio_sending
    /\ transcript_buffer' = <<>>
    /\ tasks' = Append(tasks, NewTask)
    /\ pending_tasks' = pending_tasks \cup {Len(tasks) + 1}

\* a faulty variant of the acceptance below: the buffer is not cleared
AcceptTurnKeepsBuffer(text) ==
    /\ ignore_transcripts' = TRUE
    /\ pause_audio_sending' = TRUE
    /\ transcript_buffer' = transcript_buffer
    /\ tasks' = Append(tasks, NewTask)
    /\ pending_tasks' = pending_tasks \cup {Len(tasks) + 1}

\* lines 304-308 (also 448-452 and 472-476): the end of turn is accepted
AcceptTurn(text) ==
    /\ ignore_transcripts' = TRUE
    /\ pause_audio_sending' = TRUE
    /\ transcript_buffer' = <<>>
    /\ tasks' = Append(tasks, NewTask)
    /\ pending_tasks' = pending_tasks \cup {Len(tasks) + 1}

\* the callback returns without accepting a turn, leaving `buf` in the buffer
NoTurn(buf) ==
    /\ transcript_buffer' = buf
    /\ UNCHANGED <<ignore_transcripts, pause_audio_sending, tasks, pending_tasks>>

\* the bounds of the model on what a callback may leave behind
Bounded == Len(transcript_buffer') <= MaxBuf /\ Len(tasks') <= MaxTurns

DetectorFrame ==
    UNCHANGED <<appVars, session_active, is_listening, avatar_turn_active, cfgVars, dgVars,
                avVars, next_frame>>

\* lines 266-269 (Flux Connected) and 479-487 (Nova SpeechStarted, Metadata)
DetectorInfo ==
    /\ ~StopBusy
    /\ listen_pc = "running"
    /\ NoTurn(transcript_buffer)
    /\ DetectorFrame
    /\ Out("none", "none", Nothing)

\* lines 271-277: Flux FatalError
FluxFatalError ==
    /\ ~StopBusy
    /\ listen_pc = "running" /\ asr_model = "flux"
    /\ is_listening' = FALSE
    /\ NoTurn(transcript_buffer)
    /\ UNCHANGED <<appVars, session_active, avatar_turn_active, cfgVars, dgVars, avVars,
                   next_frame>>
    /\ Outputs("none", "none", Nothing)
    /\ dg_fatal_error' = TRUE
    /\ UNCHANGED ready_before_active

\* a faulty variant of the handler below: every EndOfTurn starts a turn
FluxTurnInfoAnyText(event, transcript_text) ==
    /\ ~StopBusy
    /\ listen_pc = "running" /\ asr_model = "flux"
    /\ IF IgnoringTranscripts
       THEN NoTurn(transcript_buffer)
       ELSE LET buf == IF transcript_text # <<>>
                       THEN Append(transcript_buffer, transcript_text)
                       ELSE transcript_buffer
                final_transcript == Strip(IF transcript_text # <<>> THEN transcript_text
                                          ELSE Join(buf))
            IN IF event = "EndOfTurn"
               THEN AcceptTurn(final_transcript)
               ELSE NoTurn(buf)
    /\ Bounded
    /\ DetectorFrame
    /\ Out("none", "none", Nothing)

\* lines 279-310: Flux TurnInfo
FluxTurnInfo(event, transcript_text) ==
    /\ ~StopBusy
    /\ listen_pc = "running" /\ asr_model = "flux"
    /\ IF IgnoringTranscripts
       THEN NoTurn(transcript_buffer)
       ELSE LET buf == IF transcript_text # <<>>
                       THEN Append(transcript_buffer, transcript_text)
                       ELSE transcript_buffer
                final_transcript == Strip(IF transcript_text # <<>> THEN transcript_text
                                          ELSE Join(buf))
            IN IF event = "EndOfTurn" /\ final_transcript # <<>>
               THEN AcceptTurn(final_transcript)
               ELSE NoTurn(buf)
    /\ Bounded
    /\ DetectorFrame
    /\ Out("none", "none", Nothing)

\* lines 411-458: Nova Results
NovaResults(from_finalize, has_alternative, transcript, is_final, speech_final) ==
    /\ ~StopBusy
    /\ listen_pc = "running" /\ asr_model = "nova"
    /\ IF from_finalize \/ IgnoringTranscripts \/ ~has_alternative \/ transcript = <<>>
       THEN NoTurn(transcript_buffer)
       ELSE IF speech_final
       THEN LET buf == Append(transcript_buffer, transcript)
                final_transcript == Strip(Join(buf))
            IN IF final_transcript # <<>>
               THEN AcceptTurn(final_transcript)
               ELSE NoTurn(buf)
       ELSE IF is_final
       THEN NoTurn(Append(transcript_buffer, transcript))
       ELSE NoTurn(transcript_buffer)
    /\ Bounded
    /\ DetectorFrame
    /\ Out("none", "none", Nothing)

\* lines 460-477: Nova UtteranceEnd
NovaUtteranceEnd ==
    /\ ~StopBusy
    /\ listen_pc = "running" /\ asr_model = "nova"
    /\ IF ~IgnoringTranscripts /\ transcript_buffer # <<>>
          /\ Strip(Join(transcript_buffer)) # <<>>
       THEN AcceptTurn(Strip(Join(transcript_buffer)))
       ELSE NoTurn(transcript_buffer)
    /\ Bounded
    /\ DetectorFrame
    /\ Out("none", "none", Nothing)

\* lines 315-320 / 492-495: on_close
DetectorClosed ==
    /\ ~StopBusy
    /\ listen_pc = "running"
    /\ dg_connection' = FALSE
    /\ is_listening' = FALSE
    /\ listen_pc' = "done"
    /\ dg_open' = FALSE
    /\ NoTurn(transcript_buffer)
    /\ UNCHANGED <<appVars, session_active, avatar_turn_active, cfgVars, dg_audio_queue,
                   dg_worker_task, dg_listen_task, worker_pc, keepalive_pc, avVars,
                   next_frame>>
    /\ Out("none", "none", Nothing)

(***************************************************************************)
(* _handle_user_turn (661-743), the tracked task of one turn.  Its pc is   *)
(* the await it is suspended in: "sched" (created, not yet run),           *)
(* "thinking" (the status push), "gen" (the generation call, the next      *)
(* sentence of _stream_response or the send of the previous one),          *)
(* "finish" (the send of text_stream_done).                                *)
(***************************************************************************)
\* AvatarTalkClient._check_connected (106-109)
CanSend == av_connected /\ av_ws

\* _on_task_done (637-644)
TaskEnds(t, pc) ==
    /\ tasks' = [tasks EXCEPT ![t] = [pc |-> pc, sent |-> 0]]
    /\ pending_tasks' = pending_tasks \ {t}

\* _drain_audio_queue (583-602)
Drained(q) == IF q = NoQueue THEN NoQueue ELSE <<>>

\* _send_deepgram_finalize (604-628): only Nova, only with a connection
FinalizeSent == asr_model # "flux" /\ dg_connection

\* lines 665-676: the first step of the task
TurnBegin(t) ==
    /\ ~StopBusy
    /\ t \in DOMAIN tasks /\ tasks[t].pc = "sched"
    /\ is_listening' = FALSE
    /\ avatar_turn_active' = TRUE
    /\ dg_audio_queue' = Drained(dg_audio_queue)
    /\ tasks' = [tasks EXCEPT ![t].pc = "thinking"]
    /\ UNCHANGED <<appVars, session_active, ignore_transcripts, pause_audio_sending, cfgVars,
                   transcript_buffer, dg_worker_task, dg_listen_task, dg_connection,
                   worker_pc, listen_pc, keepalive_pc, dg_open, pending_tasks, avVars,
                   next_frame>>
    /\ Out("thinking", "none", IF FinalizeSent THEN Finalize ELSE Nothing)

\* a faulty variant of the step below: a turn_start that cannot be sent ends
\* the turn through the except branch
TurnPregenGates(t) ==
    /\ ~StopBusy
    /\ t \in DOMAIN tasks /\ tasks[t].pc = "thinking"
    /\ UNCHANGED <<appVars, cfgVars, transcript_buffer, dgVars, avVars, next_frame>>
    /\ IF use_pregen /\ ~(av_connected /\ av_ws)
       THEN /\ is_listening' = TRUE
            /\ avatar_turn_active' = FALSE
            /\ tasks' = [tasks EXCEPT ![t] = [pc |-> "done", sent |-> 0]]
            /\ pending_tasks' = pending_tasks \ {t}
            /\ UNCHANGED <<session_active, ignore_transcripts, pause_audio_sending>>
            /\ Out("listening", "none", Nothing)
       ELSE /\ tasks' = [tasks EXCEPT ![t].pc = "gen"]
            /\ UNCHANGED <<flagVars, pending_tasks>>
            /\ Out("none", IF use_pregen THEN "turn_start" ELSE "none", Nothing)

\* lines 681-692 and 755-791: turn_start if pregen is enabled (a failure is
\* logged), then the generation request is issued
TurnPregen(t) ==
    /\ ~StopBusy
    /\ t \in DOMAIN tasks /\ tasks[t].pc = "thinking"
    /\ tasks' = [tasks EXCEPT ![t].pc = "gen"]
    /\ UNCHANGED <<appVars, flagVars, cfgVars, transcript_buffer, dgVars, pending_tasks,
                   avVars, next_frame>>
    /\ Out("none", IF use_pregen /\ CanSend THEN "turn_start" ELSE "none",
           Nothing)

\* lines 737-743: the except branch of the task
TurnError(t) ==
    /\ is_listening' = TRUE
    /\ avatar_turn_active' = FALSE
    /\ TaskEnds(t, "done")
    /\ UNCHANGED <<session_active, ignore_transcripts, pause_audio_sending>>

\* a faulty variant of the test of line 726: text_stream_done is always due
StreamDoneAlways(t) == tasks[t].sent >= 0

\* line 726: text_stream_done is sent only if a sentence was sent
StreamDoneDue(t) == tasks[t].sent > 0

\* lines 692-731, one resumption of the task in its generation loop.
\* more: _stream_response yields another non-blank sentence (a sentence of
\* the reply, or the fallback sentence of lines 835-840), which is sent as
\* text_input if it is the first and as text_append otherwise; ~more: the
\* generator has ended.
TurnGen(t, more) ==
    /\ ~StopBusy
    /\ t \in DOMAIN tasks /\ tasks[t].pc = "gen"
    /\ more => tasks[t].sent < MaxSentences
    /\ UNCHANGED <<appVars, cfgVars, transcript_buffer, dgVars, avVars, next_frame>>
    /\ IF more
       THEN IF CanSend
            THEN /\ tasks' = [tasks EXCEPT ![t].sent = @ + 1]
                 /\ UNCHANGED <<flagVars, pending_tasks>>
                 /\ Out("none",
                        IF tasks[t].sent = 0 THEN "text_input" ELSE "text_append", Nothing)
            ELSE TurnError(t) /\ Out("listening", "none", Nothing)
       ELSE IF StreamDoneDue(t)
            THEN IF CanSend
                 THEN /\ tasks' = [tasks EXCEPT ![t].pc = "finish"]
                      /\ UNCHANGED <<flagVars, pending_tasks>>
                      /\ Out("none", "text_stream_done", Nothing)
                 ELSE TurnError(t) /\ Out("listening", "none", Nothing)
            ELSE /\ TaskEnds(t, "done")
                 /\ UNCHANGED flagVars
                 /\ Out("none", "none", Nothing)

\* lines 727-731: finish_text_stream returned
TurnFinish(t) ==
    /\ ~StopBusy
    /\ t \in DOMAIN tasks /\ tasks[t].pc = "finish"
    /\ avatar_turn_active' = FALSE
    /\ TaskEnds(t, "done")
    /\ UNCHANGED <<appVars, session_active, is_listening, ignore_transcripts,
                   pause_audio_sending, cfgVars, transcript_buffer, dgVars, av_connected,
                   av_closing, av_ws, av_listen_task, av_listen_pc, av_orphans, next_frame>>
    /\ Out("none", "none", Nothing)

(***************************************************************************)
(* Renderer callbacks, called by AvatarTalkClient._listen_loop (224-293).  *)
(***************************************************************************)
\* line 926: the turn is still the orchestrator's
TurnStillActive == avatar_turn_active

\* _handle_ready_to_listen (911-940)
HandleReadyToListen ==
    IF ~session_active \/ TurnStillActive
    THEN UNCHANGED <<flagVars, transcript_buffer>>
    ELSE /\ transcript_buffer' = <<>>
         /\ ignore_transcripts' = FALSE
         /\ pause_audio_sending' = FALSE
         /\ is_listening' = TRUE
         /\ UNCHANGED <<session_active, avatar_turn_active>>

\* lines 936-940: 'listening' is pushed when the microphone is re-enabled
ListeningPushed == IF is_listening' /\ ~is_listening THEN "listening" ELSE "none"

\* a ready_to_listen message from the renderer
RendererReadyToListen ==
    /\ ~StopBusy
    /\ av_listen_pc = "running"
    /\ HandleReadyToListen
    /\ UNCHANGED <<appVars, cfgVars, dgVars, pending_tasks, tasks, avVars, next_frame>>
    /\ Out(ListeningPushed, "none", Nothing)

\* a faulty variant of the mapping below: silence is projected to 'listening'
StatusOfSilenceListening(to_state) ==
    IF to_state \in thinking_states THEN "thinking"
    ELSE IF to_state \in speaking_states THEN "speaking"
    ELSE "listening"

\* lines 901-908: the status a renderer state maps to
StatusOf(to_state) ==
    IF to_state \in thinking_states THEN "thinking"
    ELSE IF to_state \in speaking_states THEN "speaking"
    ELSE "none"

\* _handle_avatartalk_state_change (886-909)
RendererStateChange(to_state) ==
    /\ ~StopBusy
    /\ av_listen_pc = "running"
    /\ is_listening' = IF StatusOf(to_state) # "none" THEN FALSE ELSE is_listening
    /\ UNCHANGED <<appVars, session_active, avatar_turn_active, ignore_transcripts,
                   pause_audio_sending, cfgVars, transcript_buffer, dgVars, pending_tasks,
                   tasks, avVars, next_frame>>
    /\ Out(StatusOf(to_state), "none", Nothing)

\* _listen_loop (278-293): the connection ended without a local disconnect();
\* the orchestrator registers no on_disconnect callback
RendererClosed ==
    /\ ~StopBusy
    /\ av_listen_pc = "running"
    /\ av_listen_pc' = "done"
    /\ av_connected' = FALSE
    /\ UNCHANGED <<appVars, flagVars, cfgVars, transcript_buffer, dgVars, pending_tasks,
                   tasks, av_closing, av_ws, av_listen_task, av_orphans, next_frame>>
    /\ Out("none", "none", Nothing)

(***************************************************************************)
(* stop_session (146-189) with AvatarTalkClient.disconnect (295-320).      *)
(* stop_pc names the await stop_session is suspended in ("await_worker",   *)
(* "await_task", "await_av_listen", "await_ws_close") or, where an await   *)
(* did not suspend, the code it goes on with ("run_listener",              *)
(* "run_tasks").                                                           *)
(***************************************************************************)
\* lines 148-165: the flags, the sentinel, the cancellation of the worker
StopBegin ==
    /\ EndpointFree \/ (app_pc = "closing" /\ stop_pc = "idle")
    /\ session_active' = FALSE
    /\ is_listening' = FALSE
    /\ dg_audio_queue' = IF dg_audio_queue = NoQueue THEN NoQueue
                         ELSE Append(dg_audio_queue, StopSentinel)
    /\ IF dg_worker_task /\ worker_pc \in {"connect", "loop", "linger"}
       THEN worker_pc' = "cancelling" /\ stop_pc' = "await_worker"
       ELSE worker_pc' = worker_pc /\ stop_pc' = "run_listener"
    /\ UNCHANGED <<app_pc, stop_list, avatar_turn_active, ignore_transcripts,
                   pause_audio_sending, cfgVars, transcript_buffer, dg_worker_task,
                   dg_listen_task, dg_connection, listen_pc, keepalive_pc, dg_open,
                   pending_tasks, tasks, avVars, next_frame>>
    /\ Out("none", "none", Nothing)

\* lines 166-180: the worker has ended; the listener is cancelled, the
\* connection and the queue are released, the pending tasks are listed
StopAfterWorker ==
    /\ \/ stop_pc = "await_worker" /\ ~WorkerLive
       \/ stop_pc = "run_listener"
    /\ dg_worker_task' = FALSE
    /\ listen_pc' = IF dg_listen_task /\ listen_pc = "running" THEN "done" ELSE listen_pc
    /\ dg_listen_task' = FALSE
    /\ dg_connection' = FALSE
    /\ dg_audio_queue' = NoQueue
    /\ stop_list' = pending_tasks
    /\ stop_pc' = "run_tasks"
    /\ UNCHANGED <<app_pc, flagVars, cfgVars, transcript_buffer, worker_pc, keepalive_pc,
                   dg_open, pending_tasks, tasks, avVars, next_frame>>
    /\ Out("none", "none", Nothing)

\* lines 180-185: the next listed task that is not done is cancelled and
\* awaited (a done one does not suspend the loop)
StopCancelTask(t) ==
    /\ stop_pc \in {"run_tasks", "await_task"}
    /\ t \in stop_list /\ Live(t)
    /\ TaskEnds(t, "cancelled")
    /\ stop_list' = stop_list \ {t}
    /\ stop_pc' = "await_task"
    /\ UNCHANGED <<app_pc, flagVars, cfgVars, transcript_buffer, dgVars, avVars, next_frame>>
    /\ Out("none", "none", Nothing)

\* lines 186-189 and avatartalk_client.py 297-308: the set is cleared and
\* disconnect() starts; it cancels the listen loop
StopDisconnect ==
    /\ stop_pc \in {"run_tasks", "await_task"}
    /\ \A t \in stop_list : ~Live(t) /\ tasks[t].pc # "raised"
    /\ pending_tasks' = {}
    /\ stop_list' = {}
    /\ IF av_closing
       THEN /\ stop_pc' = "returned"
            /\ UNCHANGED <<av_closing, av_connected, av_listen_pc, av_listen_task>>
       ELSE /\ av_closing' = TRUE
            /\ av_connected' = FALSE
            /\ av_listen_pc' = IF av_listen_task /\ av_listen_pc = "running" THEN "done"
                               ELSE av_listen_pc
            /\ IF av_listen_task /\ av_listen_pc = "running"
               THEN stop_pc' = "await_av_listen" /\ av_listen_task' = av_listen_task
               ELSE /\ av_listen_task' = FALSE
                    /\ stop_pc' = IF av_ws THEN "await_ws_close" ELSE "returned"
    /\ UNCHANGED <<app_pc, flagVars, cfgVars, transcript_buffer, dgVars, tasks, av_ws,
                   av_orphans, next_frame>>
    /\ Out("none", "none", Nothing)

\* avatartalk_client.py 308-312: the listen loop has ended; the socket is
\* being closed
StopAfterListen ==
    /\ stop_pc = "await_av_listen"
    /\ av_listen_task' = FALSE
    /\ stop_pc' = IF av_ws THEN "await_ws_close" ELSE "returned"
    /\ UNCHANGED <<app_pc, stop_list, flagVars, cfgVars, transcript_buffer, dgVars,
                   pending_tasks, tasks, av_connected, av_closing, av_ws, av_listen_pc,
                   av_orphans, next_frame>>
    /\ Out("none", "none", Nothing)

\* a faulty variant of the step below: disconnect() returns without closing
\* the socket
StopClosedLeavesSocket ==
    /\ stop_pc = "await_ws_close"
    /\ stop_pc' = "returned"
    /\ UNCHANGED <<app_pc, stop_list, flagVars, cfgVars, transcript_buffer, dgVars,
                   pending_tasks, tasks, avVars, next_frame>>
    /\ Out("none", "none", Nothing)

\* avatartalk_client.py 312-320: the socket is closed
StopClosed ==
    /\ stop_pc = "await_ws_close"
    /\ av_ws' = FALSE
    /\ stop_pc' = "returned"
    /\ UNCHANGED <<app_pc, stop_list, flagVars, cfgVars, transcript_buffer, dgVars,
                   pending_tasks, tasks, av_connected, av_closing, av_listen_task,
                   av_listen_pc, av_orphans, next_frame>>
    /\ Out("none", "none", Nothing)

(***************************************************************************)
(* The specification.                                                      *)
(***************************************************************************)
Endpoint ==
    \/ \E asr \in ASRModels, pregen \in BOOLEAN : StartSession(asr, pregen)
    \/ StartConnected
    \/ StartConnectFailed
    \/ StartDone
    \/ SetAudioConfig
    \/ ProcessAudio

Worker ==
    \/ WorkerConnected
    \/ WorkerConnectFailed
    \/ WorkerGet
    \/ WorkerExit
    \/ WorkerCancelled
    \/ KeepaliveTick

Detector ==
    \/ DetectorInfo
    \/ FluxFatalError
    \/ \E event \in {"Update", "EndOfTurn"}, text \in Texts : FluxTurnInfo(event, text)
    \/ \E ff, alt, fin, sf \in BOOLEAN, text \in Texts : NovaResults(ff, alt, text, fin, sf)
    \/ NovaUtteranceEnd
    \/ DetectorClosed

TurnStep(t) ==
    \/ TurnBegin(t)
    \/ TurnPregen(t)
    \/ \E more \in BOOLEAN : TurnGen(t, more)
    \/ TurnFinish(t)

Renderer ==
    \/ RendererReadyToListen
    \/ \E to \in thinking_states \cup speaking_states \cup {"silence"} : RendererStateChange(to)
    \/ RendererClosed

Stop ==
    \/ StopBegin
    \/ StopAfterWorker
    \/ \E t \in stop_list : StopCancelTask(t)
    \/ StopDisconnect
    \/ StopAfterListen
    \/ StopClosed

Next ==
    \/ Endpoint
    \/ Worker
    \/ Detector
    \/ \E t \in 1..MaxTurns : TurnStep(t)
    \/ Renderer
    \/ Stop

Spec == Init /\ [][Next]_vars

\* The event loop runs every task that is ready: the steps of the audio
\* worker and of the turn tasks are taken as long as they are enabled.  What
\* the browser, the detector and the renderer send is up to them.
FairSpec ==
    /\ Spec
    /\ WF_vars(Worker)
    /\ WF_vars(\E t \in 1..MaxTurns : TurnStep(t))

\* The orchestrator driven through its API by a caller that repeats
\* start_session: the endpoint task and the renderer, with no audio worker.
RestartNext ==
    \/ \E asr \in ASRModels, pregen \in BOOLEAN : StartSessionAgain(asr, pregen)
    \/ Endpoint
    \/ Renderer
    \/ StopBegin
    \/ StopAfterWorker
    \/ StopDisconnect
    \/ StopAfterListen
    \/ StopClosed

RestartSpec == Init /\ [][RestartNext]_vars

\* The endpoint with the text frames of its control loop, and the renderer,
\* with no audio worker.
ControlNext ==
    \/ Endpoint
    \/ \E form \in Forms, type \in Types, data \in Payloads : ControlMessage(form, type, data)
    \/ Renderer
    \/ StopBegin
    \/ StopAfterWorker
    \/ StopDisconnect
    \/ StopAfterListen
    \/ StopClosed

ControlSpec == Init /\ [][ControlNext]_vars

(***************************************************************************)
(* The start of a session with a renderer that sends its first             *)
(* ready_to_listen as soon as the connection is open.  The listen loop     *)
(* runs from connect on (avatartalk_client.py 98) and the callbacks are    *)
(* wired before the send of session_start is awaited (orchestrator.py      *)
(* 131-142).                                                               *)
(***************************************************************************)
\* ready_to_listen handled while start_session awaits the send
RendererReadyEarly ==
    /\ app_pc = "starting" /\ stop_pc = "idle"
    /\ av_listen_pc = "running"
    /\ HandleReadyToListen
    /\ UNCHANGED <<appVars, cfgVars, dgVars, pending_tasks, tasks, avVars, next_frame>>
    /\ Outputs(ListeningPushed, "none", Nothing)
    /\ ready_before_active' = TRUE
    /\ UNCHANGED dg_fatal_error

StartNext ==
    \/ Endpoint
    \/ RendererReadyEarly
    \/ Renderer
    \/ StopBegin
    \/ StopAfterWorker
    \/ StopDisconnect
    \/ StopAfterListen
    \/ StopClosed

\* the send of session_start returns or raises
StartSpec == Init /\ [][StartNext]_vars /\ WF_vars(StartDone)

(***************************************************************************)
(* A turn task that ends with an exception.  _handle_user_turn awaits the  *)
(* injected observer on_status_change outside its try blocks (675-676): an *)
(* observer that raises ends the task with that exception ("raised").      *)
(* asyncio runs the done callback of a task in a later step of the loop.   *)
(***************************************************************************)
\* lines 665-676 with an observer that raises on 'thinking'
TurnBeginRaises(t) ==
    /\ ~StopBusy
    /\ t \in DOMAIN tasks /\ tasks[t].pc = "sched"
    /\ is_listening' = FALSE
    /\ avatar_turn_active' = TRUE
    /\ dg_audio_queue' = Drained(dg_audio_queue)
    /\ tasks' = [tasks EXCEPT ![t].pc = "raised"]
    /\ UNCHANGED <<appVars, session_active, ignore_transcripts, pause_audio_sending, cfgVars,
                   transcript_buffer, dg_worker_task, dg_listen_task, dg_connection,
                   worker_pc, listen_pc, keepalive_pc, dg_open, pending_tasks, avVars,
                   next_frame>>
    /\ Out("none", "none", IF FinalizeSent THEN Finalize ELSE Nothing)

\* _on_task_done (637-644) for a task that raised: discarded and logged
TaskDoneRaised(t) ==
    /\ ~StopBusy
    /\ t \in DOMAIN tasks /\ tasks[t].pc = "raised"
    /\ t \in pending_tasks
    /\ pending_tasks' = pending_tasks \ {t}
    /\ UNCHANGED <<appVars, flagVars, cfgVars, transcript_buffer, dgVars, tasks, avVars,
                   next_frame>>
    /\ Out("none", "none", Nothing)

\* lines 180-185: the loop of stop_session awaits a listed task that has
\* raised: the exception is not a CancelledError and leaves stop_session
StopTaskRaised ==
    /\ stop_pc \in {"run_tasks", "await_task"}
    /\ \E t \in stop_list : tasks[t].pc = "raised"
    /\ stop_pc' = "failed"
    /\ stop_list' = {}
    /\ UNCHANGED <<app_pc, flagVars, cfgVars, transcript_buffer, dgVars, pending_tasks,
                   tasks, avVars, next_frame>>
    /\ Out("none", "none", Nothing)

FaultNext ==
    \/ Next
    \/ \E t \in 1..MaxTurns : TurnBeginRaises(t)
    \/ \E t \in 1..MaxTurns : TaskDoneRaised(t)
    \/ StopTaskRaised

FaultSpec == Init /\ [][FaultNext]_vars

(***************************************************************************)
(* _add_to_history (870-879), called on its own.                           *)
(***************************************************************************)
\* self.max_history_messages (line 71)
max_history_messages == 30

\* the string of n characters "a"
Chars(n) == [i \in 1..n |-> "a"]

\* a faulty variant of the trimming below: the oldest messages are kept
TrimmedToOldest(h) ==
    IF Len(h) > max_history_messages THEN SubSeq(h, 1, max_history_messages) ELSE h

\* lines 878-879: self.conversation_history[-self.max_history_messages:]
Trimmed(h) ==
    IF Len(h) > max_history_messages
    THEN SubSeq(h, Len(h) - max_history_messages + 1, Len(h))
    ELSE h

\* lines 872-879
AddedToHistory(h, role, content) ==
    IF Strip(content) = <<>> THEN h
    ELSE Trimmed(Append(h, [role |-> role, content |-> content]))

\* one call of _add_to_history.  The k-th call passes a message that differs
\* from all others (its content is k characters long) or a blank one.
AddToHistory(role, content) ==
    /\ history_calls < MaxCalls
    /\ Strip(content) = <<>> => history_calls - Len(history_log) < MaxBlanks
    /\ history_calls' = history_calls + 1
    /\ conversation_history' = AddedToHistory(conversation_history, role, content)
    /\ history_log' = IF Strip(content) = <<>> THEN history_log
                      ELSE Append(history_log, [role |-> role, content |-> content])
    /\ UNCHANGED <<progVars, obsVars, replyVars, exprVars, connVars>>

HistoryNext ==
    \E role \in {IF history_calls % 2 = 0 THEN "user" ELSE "assistant"},
       content \in {<<" ">>, Chars(history_calls + 1)} :
        AddToHistory(role, content)

HistorySpec == Init /\ [][HistoryNext]_vars

(***************************************************************************)
(* Runs of _stream_response (745-840) on replies of the generation         *)
(* backend, delivered in tokens of any size.                               *)
(***************************************************************************)
\* {"expression":"<word>"} and a newline, the prefix the system prompt asks for
Tag(word) == <<"{">> \o ExprKey \o <<":", "\"">> \o word \o <<"\"", "}", "\n">>
Happy == <<"h", "a", "p", "p", "y">>
HelloThere == <<"H", "e", "l", "l", "o", " ", "t", "h", "e", "r", "e", ".">>
HowAreYou == <<"H", "o", "w", " ", "a", "r", "e", " ", "y", "o", "u", "?">>

\* a tagged reply of two sentences
TaggedReply == Tag(Happy) \o HelloThere \o <<" ">> \o HowAreYou
\* a tagged reply without sentence-terminal punctuation
TaggedWord == Tag(Happy) \o <<"H", "e", "l", "l", "o">>
\* a tagged reply with a mark inside a token and one before whitespace
TaggedNumber == Tag(Happy) \o <<"3", ".", "1", "4", " ", "o", "k", ".", " ", "g", "o">>
\* a reply without tag, of two lines
PlainLines == <<"H", "i", "\n", "y", "o", "u", ".", " ", "O", "k">>
\* a reply without tag and without punctuation, longer than FlushLimit
LongReply == Chars(LongLen)
Replies == {TaggedReply, TaggedWord, TaggedNumber, PlainLines, LongReply}

Languages == {"en", "es"}
\* the text of the user's turn
user_text == <<"h", "i">>

\* the language codes with an entry in the message tables that config.py
\* 28-29 loads from data/error_message.json and data/timeout_message.json;
\* the files are not among the sources, and are taken to hold a message
\* for every language of a session
MessageLanguages == Languages

\* config.py 32-43: get_timeout_message and get_error_message: the message
\* of the table for the language code, the English one for a code without
\* an entry.  A message is named by its table and its language.
Fallback(kind, lang) ==
    <<IF kind = "timeout" THEN "timeout_message" ELSE "error_message",
      IF lang \in MessageLanguages THEN lang ELSE "en">>
\* config.py 61-64: Expression.default().value
DefaultExpression == <<"n", "e", "u", "t", "r", "a", "l">>

\* the sizes of the next token: any for a short reply, some for a long one
TokenSizes == IF Len(reply_all) <= MaxSplitLen THEN 1..Len(reply_rest) ELSE LongTokenSizes

\* lines 752-796: the generator is entered and runs up to the first token
StreamOpens(reply, lang) ==
    /\ stream_pc \in {"idle", "done"}
    /\ history_calls + 2 <= 2 * MaxStreams
    /\ stream_pc' = "open"
    /\ language' = lang
    /\ reply_all' = reply
    /\ reply_rest' = reply
    /\ gen' = NewGen
    /\ stream_failed' = "none"

\* the generator on its own
StreamStart(reply, lang) ==
    /\ StreamOpens(reply, lang)
    /\ UNCHANGED <<progVars, obsVars, histVars, exprVars, connVars>>

\* lines 798-822: one token of n characters
StreamChunk(n) ==
    /\ stream_pc = "open"
    /\ reply_rest # <<>>
    /\ LET k == IF n < Len(reply_rest) THEN n ELSE Len(reply_rest)
       IN /\ gen' = ChunkResult(gen, SubSeq(reply_rest, 1, k))
          /\ reply_rest' = SubSeq(reply_rest, k + 1, Len(reply_rest))
    /\ UNCHANGED <<stream_pc, language, reply_all, stream_failed>>
    /\ UNCHANGED <<progVars, obsVars, histVars, exprVars, connVars>>

\* lines 824-833: the stream ends; the rest is yielded and the turn is added
\* to the history
StreamEnd ==
    /\ stream_pc = "open"
    /\ reply_rest = <<>>
    /\ stream_pc' = "done"
    /\ gen' = EndResult(gen)
    /\ LET said == Strip(gen'.full_response_text)
           turn == <<[role |-> "user", content |-> user_text]>> \o
                   (IF said = <<>> THEN <<>>
                    ELSE <<[role |-> "assistant", content |-> said]>>)
       IN /\ conversation_history' =
                AddedToHistory(AddedToHistory(conversation_history, "user", user_text),
                               "assistant", said)
          /\ history_log' = history_log \o turn
    /\ history_calls' = history_calls + 2
    /\ UNCHANGED <<language, reply_all, reply_rest, stream_failed>>
    /\ UNCHANGED <<progVars, obsVars, exprVars, connVars>>

\* a faulty variant of the failure below: the user's text is added to the
\* history before the fallback is yielded
StreamFailAfterHistory(kind) ==
    /\ stream_pc = "open"
    /\ stream_pc' = "done"
    /\ stream_failed' = kind
    /\ gen' = [gen EXCEPT !.yielded = Append(@, [sentence |-> Fallback(kind, language),
                                                   expression |-> DefaultExpression])]
    /\ conversation_history' = AddedToHistory(conversation_history, "user", user_text)
    /\ UNCHANGED <<language, reply_all, reply_rest, history_log, history_calls>>
    /\ UNCHANGED <<progVars, obsVars, exprVars, connVars>>

\* lines 835-840: acompletion or the iteration of its stream raises
\* (asyncio.TimeoutError for kind "timeout", another exception for "error")
StreamFail(kind) ==
    /\ stream_pc = "open"
    /\ stream_pc' = "done"
    /\ stream_failed' = kind
    /\ gen' = [gen EXCEPT !.yielded = Append(@, [sentence |-> Fallback(kind, language),
                                                   expression |-> DefaultExpression])]
    /\ UNCHANGED <<language, reply_all, reply_rest>>
    /\ UNCHANGED <<progVars, obsVars, histVars, exprVars, connVars>>

ReplyNext ==
    \/ \E reply \in Replies, lang \in Languages : StreamStart(reply, lang)
    \/ \E n \in TokenSizes : StreamChunk(n)
    \/ StreamEnd
    \/ \E kind \in {"timeout", "error"} : StreamFail(kind)

ReplySpec == Init /\ [][ReplyNext]_vars

(***************************************************************************)
(* The expression of a reply: start_session (113-123) and the loop of      *)
(* _handle_user_turn (688-723) over the pairs _stream_response yields.     *)
(* The loop takes the pairs in the order they are yielded.                 *)
(***************************************************************************)
\* the value of the expression argument that selects the expressive mode
Expressive == <<"e", "x", "p", "r", "e", "s", "s", "i", "v", "e">>
Serious == <<"s", "e", "r", "i", "o", "u", "s">>
\* the expression argument of start_session
SessionExpressions == {Expressive, Happy, Serious}

\* a tagged reply of one sentence
SeriousReply == Tag(Serious) \o HowAreYou
\* a reply of the tag alone
TagOnly == Tag(Happy)
ExprReplies == {TaggedReply, TaggedWord, SeriousReply, PlainLines, TagOnly}
\* the sizes of the next token: one character, a few, the whole reply
ExprTokenSizes == {1, 7, MaxSplitLen}

\* lines 688-692: no turn is between its first_sentence = True and the end
\* of its loop
TurnLoopIdle == stream_pc \in {"idle", "done"} /\ consumed = Len(gen.yielded)

\* lines 113-123 of start_session
ConfigureExpression(expression) ==
    /\ TurnLoopIdle
    /\ session_expression # expression
    /\ session_expression' = expression
    /\ expressive_mode' = (expression = Expressive)
    /\ current_expression' = IF expression = Expressive THEN DefaultExpression
                             ELSE expression
    /\ UNCHANGED <<first_sentence, consumed, input_expression>>
    /\ UNCHANGED <<progVars, obsVars, histVars, replyVars, connVars>>

\* lines 688-692: the loop of a turn begins and enters the generator
TurnGenerate(reply, lang) ==
    /\ session_expression # <<>>
    /\ TurnLoopIdle
    /\ StreamOpens(reply, lang)
    /\ first_sentence' = TRUE
    /\ consumed' = 0
    /\ input_expression' = <<>>
    /\ UNCHANGED <<expressive_mode, current_expression, session_expression>>
    /\ UNCHANGED <<progVars, obsVars, histVars, connVars>>

\* line 703: expression if expression else self.current_expression
ExpressionUsed(expression) ==
    IF expressive_mode /\ expression # <<>> THEN expression ELSE current_expression

\* lines 692-723: the body of the loop for the next pair: a blank sentence is
\* skipped; the first other one is sent as text_input with the resolved
\* expression, the later ones as text_append
TurnSentence ==
    /\ consumed < Len(gen.yielded)
    /\ consumed' = consumed + 1
    /\ LET y == gen.yielded[consumed + 1]
       IN IF Strip(y.sentence) = <<>> \/ ~first_sentence
          THEN UNCHANGED <<first_sentence, current_expression, input_expression>>
          ELSE /\ first_sentence' = FALSE
               /\ input_expression' = ExpressionUsed(y.expression)
               /\ current_expression' = ExpressionUsed(y.expression)
    /\ UNCHANGED <<expressive_mode, session_expression>>
    /\ UNCHANGED <<progVars, obsVars, histVars, replyVars, connVars>>

ExpressionNext ==
    \/ \E expression \in SessionExpressions : ConfigureExpression(expression)
    \/ \E reply \in ExprReplies, lang \in Languages : TurnGenerate(reply, lang)
    \/ \E n \in ExprTokenSizes : StreamChunk(n)
    \/ StreamEnd
    \/ \E kind \in {"timeout", "error"} : StreamFail(kind)
    \/ TurnSentence

ExpressionSpec == Init /\ [][ExpressionNext]_vars

(***************************************************************************)
(* AvatarTalkConnector (livestream/avatartalk.py): send, receive and       *)
(* _reconnect, used by the narration loop and the healthcheck loop of      *)
(* core.py.  A step is the code one task runs between two awaits.          *)
(***************************************************************************)
notConn == <<progVars, obsVars, histVars, replyVars, exprVars>>

Min(a, b) == IF a < b THEN a ELSE b

\* lines 16-57 and 59-60: __init__ stores the limits unchecked, initialize
\* connects
Construct(n, i, m) ==
    /\ ~connector.constructed
    /\ connector' = [connector EXCEPT !.constructed = TRUE,
                                      !.max_reconnect_attempts = n,
                                      !.initial_backoff = i,
                                      !.max_backoff = m,
                                      !.ws = 1, !.open = {1}, !.made = 1]
    /\ UNCHANGED callers
    /\ UNCHANGED notConn

\* lines 59-60, called again by the healthcheck loop (core.py 624-634)
Initialize ==
    /\ connector.constructed
    /\ connector.made < MaxConns
    /\ connector' = [connector EXCEPT !.ws = connector.made + 1,
                                      !.open = @ \cup {connector.made + 1},
                                      !.made = @ + 1]
    /\ UNCHANGED callers
    /\ UNCHANGED notConn

\* the peer, or close() (lines 152-158), closes a connection
ConnectionLost(k) ==
    /\ k \in connector.open
    /\ connector' = [connector EXCEPT !.open = @ \ {k}]
    /\ UNCHANGED callers
    /\ UNCHANGED notConn

\* lines 114-117 and 131-135: a call of send or receive begins; without a
\* connection it raises RuntimeError, else it awaits the connection
Begin(c, op) ==
    /\ connector.constructed
    /\ callers[c].pc = "idle"
    /\ callers[c].ops < MaxOps
    /\ callers' = [callers EXCEPT ![c] =
          IF connector.ws = 0
          THEN [NoCall EXCEPT !.op = op, !.ops = callers[c].ops + 1,
                              !.returns = callers[c].returns,
                              !.outcome = "RuntimeError"]
          ELSE [NoCall EXCEPT !.op = op, !.ops = callers[c].ops + 1,
                              !.returns = callers[c].returns,
                              !.pc = "io", !.ws = connector.ws]]
    /\ UNCHANGED connector
    /\ UNCHANGED notConn

\* lines 117 and 135-136: the awaited send or recv completes
IoDone(c) ==
    /\ callers[c].pc = "io"
    /\ callers[c].ws \in connector.open
    /\ callers' = [callers EXCEPT ![c].pc = "idle", ![c].outcome = "ok"]
    /\ UNCHANGED connector
    /\ UNCHANGED notConn

\* lines 82-84: an attempt begins by closing the connection there is
AttemptPc == IF connector.ws # 0 THEN "closing" ELSE "connecting"

\* lines 118-121 and 141-144, then 70-84 of _reconnect: the awaited send or
\* recv raises ConnectionClosed and the handler calls _reconnect, which
\* returns False at once while another call is reconnecting (70-72) or when
\* the loop has no iteration (77, 109-111); the caller then raises
\* RuntimeError (125, 147)
IoClosed(c) ==
    /\ callers[c].pc = "io"
    /\ callers[c].ws \notin connector.open
    /\ IF connector.is_reconnecting \/ connector.max_reconnect_attempts = 0
       THEN /\ callers' = [callers EXCEPT ![c].pc = "idle",
                                          ![c].attempt = 0,
                                          ![c].waits = <<>>,
                                          ![c].connects = 0,
                                          ![c].returns = @ + 1,
                                          ![c].result = "false",
                                          ![c].outcome = "RuntimeError"]
            /\ UNCHANGED connector
       ELSE /\ callers' = [callers EXCEPT ![c].pc = AttemptPc,
                                          ![c].ws = connector.ws,
                                          ![c].attempt = 1,
                                          ![c].backoff = connector.initial_backoff,
                                          ![c].waits = <<>>,
                                          ![c].connects = 0,
                                          ![c].result = "none"]
            /\ connector' = [connector EXCEPT !.is_reconnecting = TRUE]
    /\ UNCHANGED notConn

\* lines 84-95: close() has returned or raised; finally: self._ws = None
CloseDone(c) ==
    /\ callers[c].pc = "closing"
    /\ callers' = [callers EXCEPT ![c].pc = "connecting", ![c].ws = 0]
    /\ connector' = [connector EXCEPT !.ws = 0, !.open = @ \ {callers[c].ws}]
    /\ UNCHANGED notConn

\* lines 95-98: websockets.connect succeeds and _reconnect returns True; send
\* then retries (121-123), receive goes round its loop (144-146, 133-135)
ConnectOk(c) ==
    /\ callers[c].pc = "connecting"
    /\ connector.made < MaxConns
    /\ connector' = [connector EXCEPT !.ws = connector.made + 1,
                                      !.open = @ \cup {connector.made + 1},
                                      !.made = @ + 1,
                                      !.is_reconnecting = FALSE]
    /\ callers' = [callers EXCEPT ![c].pc = IF callers[c].op = "send"
                                            THEN "retry" ELSE "io",
                                  ![c].ws = connector.made + 1,
                                  ![c].connects = @ + 1,
                                  ![c].returns = @ + 1,
                                  ![c].result = "true"]
    /\ UNCHANGED notConn

\* lines 95, 100-105 and 109-111: websockets.connect raises; before the last
\* attempt the call sleeps for backoff, after it _reconnect returns False and
\* the caller raises RuntimeError (125, 147)
ConnectFail(c) ==
    /\ callers[c].pc = "connecting"
    /\ IF callers[c].attempt < connector.max_reconnect_attempts
       THEN /\ callers' = [callers EXCEPT ![c].pc = "sleeping",
                                          ![c].connects = @ + 1,
                                          ![c].waits = Append(@, callers[c].backoff)]
            /\ UNCHANGED connector
       ELSE /\ callers' = [callers EXCEPT ![c].pc = "idle",
                                          ![c].connects = @ + 1,
                                          ![c].returns = @ + 1,
                                          ![c].result = "false",
                                          ![c].outcome = "RuntimeError"]
            /\ connector' = [connector EXCEPT !.is_reconnecting = FALSE]
    /\ UNCHANGED notConn

\* line 107 without the cap
SleepDoneUncapped(c) ==
    /\ callers[c].pc = "sleeping"
    /\ callers' = [callers EXCEPT ![c].pc = AttemptPc,
                                  ![c].ws = connector.ws,
                                  ![c].attempt = @ + 1,
                                  ![c].backoff = 2 * @]
    /\ UNCHANGED connector
    /\ UNCHANGED notConn

\* lines 105-107, 77-84: the sleep ends, the backoff doubles up to
\* max_backoff and the next attempt begins
SleepDone(c) ==
    /\ callers[c].pc = "sleeping"
    /\ callers' = [callers EXCEPT ![c].pc = AttemptPc,
                                  ![c].ws = connector.ws,
                                  ![c].attempt = @ + 1,
                                  ![c].backoff = Min(2 * @, connector.max_backoff)]
    /\ UNCHANGED connector
    /\ UNCHANGED notConn

\* line 123: the send repeated after a reconnection completes, or raises
\* ConnectionClosed to the caller of send
RetryDone(c) ==
    /\ callers[c].pc = "retry"
    /\ callers' = [callers EXCEPT ![c].pc = "idle",
                                  ![c].outcome = IF callers[c].ws \in connector.open
                                                 THEN "ok" ELSE "ConnectionClosed"]
    /\ UNCHANGED connector
    /\ UNCHANGED notConn

ConnectorNext ==
    \/ \E n \in ReconnectAttempts, i \in InitialBackoffs, m \in MaxBackoffs :
          Construct(n, i, m)
    \/ Initialize
    \/ \E k \in 1..MaxConns : ConnectionLost(k)
    \/ \E c \in Callers : \E op \in OpsOf(c) : Begin(c, op)
    \/ \E c \in Callers : IoDone(c)
    \/ \E c \in Callers : IoClosed(c)
    \/ \E c \in Callers : CloseDone(c)
    \/ \E c \in Callers : ConnectOk(c)
    \/ \E c \in Callers : ConnectFail(c)
    \/ \E c \in Callers : SleepDone(c)
    \/ \E c \in Callers : RetryDone(c)

ConnectorSpec == Init /\ [][ConnectorNext]_vars

(***************************************************************************)
(* Properties.                                                             *)
(***************************************************************************)
\* the turn tasks that have not finished
InFlight == {t \in DOMAIN tasks : Live(t)}

\* C1: exactly-once turn handling.  A step creates a _handle_user_turn task
\* exactly when it accepts an end of turn (_ignore_transcripts goes from
\* false to true), it creates one, tracked and not yet run; and
\* _ignore_transcripts is only lowered by an accepted ready_to_listen, so no
\* detector event between an acceptance and the next accepted
\* ready_to_listen creates a further task, also not before the task has run
\* its first step.
C1_ExactlyOneTurnTask ==
    [][ /\ Len(tasks') = Len(tasks) + (IF ~ignore_transcripts /\ ignore_transcripts'
                                       THEN 1 ELSE 0)
        /\ Len(tasks') > Len(tasks) =>
              /\ Detector
              /\ tasks'[Len(tasks')].pc = "sched"
              /\ pending_tasks' = pending_tasks \cup {Len(tasks')}
        /\ (ignore_transcripts /\ ~ignore_transcripts') => RendererReadyToListen
      ]_vars

\* C1: an end of turn was accepted, its task has not run its first step and
\* the detector can deliver further events
C1_Witness ==
    /\ session_active /\ stop_pc = "idle"
    /\ Len(tasks) = 1 /\ tasks[1].pc = "sched"
    /\ ignore_transcripts
    /\ listen_pc = "running"

\* C2: a ready_to_listen handled while a turn is between its acceptance and
\* the completion of finish_text_stream is ignored: is_listening,
\* _ignore_transcripts, _pause_audio_sending and the transcript buffer are
\* unchanged and no 'listening' status is pushed.
C2_ReadyToListenIgnoredDuringTurn ==
    [][ (RendererReadyToListen /\ session_active /\ InFlight # {}) =>
            /\ UNCHANGED <<is_listening, ignore_transcripts, pause_audio_sending,
                           transcript_buffer>>
            /\ status_out' # "listening"
      ]_vars

\* C3: an audio frame is passed to send_media only in a state where
\* is_listening is true and _pause_audio_sending is false.
C3_FramesOnlyWhileListening ==
    [][ (WorkerGet /\ dg_out' # Nothing) => (is_listening /\ ~pause_audio_sending) ]_vars

\* C4: a turn of an active session returns to Listening.  Its finite-run
\* form: as long as the session runs and the turn is still held
\* (avatar_turn_active with transcripts ignored), a turn task that will
\* release it is still in flight.
C4_TurnIsReleased ==
    (session_active /\ stop_pc = "idle" /\ avatar_turn_active /\ ignore_transcripts)
        => InFlight # {}

\* C5: the except branch of _handle_user_turn leaves is_listening true and
\* _pause_audio_sending and _ignore_transcripts false.
C5_ErrorRecoveryReopensGate ==
    [][ (\E t \in DOMAIN tasks, more \in BOOLEAN : TurnGen(t, more) /\ status_out' = "listening")
            => (is_listening' /\ ~pause_audio_sending' /\ ~ignore_transcripts') ]_vars

C7_CentralInvariant ==
    (session_active /\ is_listening /\ \A t \in DOMAIN tasks : tasks[t].pc # "sched")
        => ~(pause_audio_sending \/ ignore_transcripts \/ avatar_turn_active)

\* C8: at most one _handle_user_turn task is in flight at any time.
C8_AtMostOneTurnInFlight == Cardinality(InFlight) <= 1

\* C9: when stop_session has returned, the worker, the detector listener, the
\* Nova keep-alive, every turn task and the renderer listener are terminal,
\* _pending_tasks is empty and the audio queue is None.
C9_StopLeavesNothingRunning ==
    stop_pc = "returned" =>
        /\ ~WorkerLive
        /\ listen_pc # "running"
        /\ keepalive_pc # "running"
        /\ InFlight = {}
        /\ av_listen_pc # "running"
        /\ pending_tasks = {}
        /\ dg_audio_queue = NoQueue

\* C10: once disconnect() has started closing the renderer connection, the
\* worker, the detector listener and every turn task have finished, and no
\* task the session created is running.
C10_DisconnectAfterTasks ==
    av_closing =>
        /\ ~WorkerLive
        /\ listen_pc # "running"
        /\ InFlight = {}
        /\ keepalive_pc # "running"

\* C11: start_session on an already started session leaves one renderer
\* connection and one listen task: no earlier connection or listen task is
\* left running without an owner.
C11_OneRendererConnection == av_orphans = 0

\* the last n elements of the sequence q (all of it if it is shorter)
LastOf(q, n) == IF Len(q) > n THEN SubSeq(q, Len(q) - n + 1, Len(q)) ELSE q

\* C12: after any sequence of _add_to_history calls the history is no longer
\* than max_history_messages and it is the most recent kept messages in
\* their original order.
C12_HistoryIsMostRecent ==
    /\ Len(conversation_history) <= max_history_messages
    /\ conversation_history = LastOf(history_log, max_history_messages)

\* C12: more messages than the cap were appended and the oldest were evicted
C12_Witness ==
    /\ Len(history_log) > max_history_messages + 1
    /\ Len(conversation_history) = max_history_messages
    /\ Len(conversation_history[1].content) > 2

\* the sentences yielded so far, concatenated
RECURSIVE Concat(_)
Concat(ys) == IF ys = <<>> THEN <<>> ELSE Head(ys).sentence \o Concat(Tail(ys))

\* the text without its whitespace
NonSpace(s) == SelectSeq(s, LAMBDA c : ~IsSpace(c))

\* the position after the first c in b at or after position start, or 0
AfterFirst(b, start, c) ==
    IF \E j \in start..Len(b) : b[j] = c
    THEN 1 + CHOOSE j \in start..Len(b) : b[j] = c /\ \A k \in start..(j - 1) : b[k] # c
    ELSE 0

\* the position in b after a[lo..hi] is found in it in order, each character
\* at its first occurrence from position start on; 0 if it is not there
RECURSIVE FoundUpTo(_, _, _, _, _)
FoundUpTo(a, lo, hi, b, start) ==
    IF start = 0 THEN 0
    ELSE IF lo > hi THEN start
    ELSE IF lo = hi THEN AfterFirst(b, start, a[lo])
    ELSE FoundUpTo(a, (lo + hi) \div 2 + 1, hi, b, FoundUpTo(a, lo, (lo + hi) \div 2, b, start))

\* a occurs in b in order
IsSubsequence(a, b) == FoundUpTo(a, 1, Len(a), b, 1) # 0

\* the run has ended without a failure of the backend
Completed == stream_pc = "done" /\ stream_failed = "none"

\* C13: when the tag search gives up, the whole lookahead buffer is treated
\* as content: after a completed run on a reply without a valid tag, however
\* it was split into tokens, the sentences yielded contain all the
\* non-whitespace text of the reply, in order.
C13_GiveUpKeepsAllText ==
    (Completed /\ ~ExpressionMatch(reply_all).found)
        => IsSubsequence(NonSpace(reply_all), NonSpace(Concat(gen.yielded)))

\* C14: if an expression tag was extracted from the reply, the first
\* sentence yielded carries that expression and every later one carries
\* none, however the reply was split into tokens and whichever step yields
\* the first sentence.
C14_ExpressionOnFirstSentence ==
    (Completed /\ gen.expression_extracted /\ gen.yielded # <<>>)
        => /\ gen.yielded[1].expression = ExpressionMatch(reply_all).expression
           /\ \A i \in 2..Len(gen.yielded) : gen.yielded[i].expression = <<>>

\* the number of characters of the reply delivered so far
Received == Len(reply_all) - Len(reply_rest)

\* the reply has no sentence-terminal punctuation
Unpunctuated(reply) == \A i \in 1..Len(reply) : reply[i] \notin EndChars

\* C15: forced flush.  While a reply longer than the 400-character
\* threshold and without sentence-terminal punctuation is streamed, however
\* it is split into tokens, no sentence has been yielded as long as the text
\* received is within the threshold and exactly one has been yielded once
\* it exceeds it.
C15_ForcedFlushAtThreshold ==
    (stream_pc = "open" /\ Len(reply_all) > FlushLimit /\ Unpunctuated(reply_all))
        => Len(gen.yielded) = IF Received > FlushLimit THEN 1 ELSE 0

\* the texts of the sentences yielded
Sentences(ys) == [i \in 1..Len(ys) |-> ys[i].sentence]

\* the run of the generator on the reply delivered as a single token
Unsplit(reply) == EndResult(ChunkResult(NewGen, reply))

\* C16: sentence segmentation does not depend on the token boundaries.
\* After a completed run on a reply whose tag was extracted, the sentences
\* yielded are those of the same reply delivered as a single token, where a
\* sentence ends at a '.', '!' or '?' followed by whitespace or by the end
\* of the reply.
C16_BoundariesIndependentOfTokens ==
    (Completed /\ gen.expression_extracted)
        => Sentences(gen.yielded) = Sentences(Unsplit(reply_all).yielded)

C18_NoAudioAfterFatalError ==
    (dg_fatal_error /\ session_active) => \A f \in 1..MaxFrames : dg_out # Media(f)

\* C19: when the renderer connection ends without a local disconnect()
\* during an active session, an error event is delivered to the browser,
\* and the orchestrator does not connect again: the step in which the
\* listen loop ends sends the error event and leaves the client
\* disconnected.
C19_DisconnectIsSurfaced ==
    [][(RendererClosed /\ session_active /\ ~av_closing)
           => (status_out' = "error" /\ ~av_connected')]_vars

\* a frame the claim calls malformed
Malformed(form, type, data) == form # "object" \/ type = "other" \/ data # "fields_valid"

\* C20: every malformed control message received after the start of the
\* session is dropped silently: the step that handles it sends no error
\* event, the endpoint keeps running its loop, and the state of the
\* orchestrator is unchanged.
C20_MalformedControlIsDropped ==
    [][\A form \in Forms, type \in Types, data \in Payloads :
          (ControlMessage(form, type, data) /\ Malformed(form, type, data))
              => (status_out' # "error" /\ UNCHANGED progVars)]_vars

\* C21: a failed start is surfaced and leaves no partial session.  The step
\* in which start_session fails (the connection is refused or times out, or
\* session_start cannot be sent) sends an error event to the browser; and
\* when the endpoint has returned from stop_session after it, session_active
\* is false, the renderer socket is closed, the renderer listen task has
\* ended and there is no audio worker.
C21_FailedStartLeavesNothing ==
    [][((app_pc # "failed" /\ app_pc' = "failed") => status_out' = "error")
       /\ ((app_pc' = "failed" /\ stop_pc' = "returned")
              => /\ ~session_active'
                 /\ ~av_ws' /\ ~av_connected'
                 /\ ~av_listen_task' /\ av_listen_pc' # "running"
                 /\ ~dg_worker_task' /\ worker_pc' = "none")]_vars

\* the start failed after the socket had been opened and the listen loop
\* had run, and the endpoint has returned
C21_Witness ==
    /\ app_pc = "failed"
    /\ stop_pc = "returned"
    /\ av_listen_pc = "done"
    /\ av_closing

\* C22: the state machine starts in Listening, and Stopped is entered only
\* by stop_session.  The step in which start_session returns successfully
\* leaves the orchestrator listening with the gate open, so that a
\* configured frame is accepted without a renderer event before it; and
\* session_active is lowered only by the first step of stop_session.
C22_StartsListening ==
    [][((StartDone /\ session_active') => (is_listening' /\ ~pause_audio_sending'))
       /\ ((session_active /\ ~session_active') => StopBegin)]_vars

\* C23: every frame received while Listening is forwarded to the detector,
\* once and in arrival order, also across a failed send and the replacement
\* of the worker.  The queue is FIFO, so the frames arrive at the worker in
\* order; the formula states that none is lost there: a frame the worker
\* takes from the queue while the orchestrator is Listening (session active,
\* is_listening true, gate open) is the frame sent in that step.
C23_NoFrameLostWhileListening ==
    [][(WorkerGet /\ session_active /\ is_listening /\ ~pause_audio_sending
            /\ Head(dg_audio_queue) # StopSentinel)
           => dg_out' = Media(Head(dg_audio_queue))]_vars

\* C24: process_audio is a no-op unless the orchestrator is Listening and
\* the gate is not paused: a call in a state where is_listening is false or
\* _pause_audio_sending is true adds no frame to the audio queue.
C24_EnqueueOnlyWhileListening ==
    [][(ProcessAudio /\ (~is_listening \/ pause_audio_sending))
           => dg_audio_queue' = dg_audio_queue]_vars

\* the audio frames in the queue q
FramesIn(q) == {q[i] : i \in 1..Len(q)} \cap (1..MaxFrames)

\* C25: a frame received before set_audio_config is dropped without error:
\* the call leaves the queue, the worker and the detector connection as
\* they are and sends no error event.  The frame cannot reach the detector
\* later either: a frame enters the queue only in a process_audio step with
\* the audio configured, as the frame of that call, and a step sends only
\* the frame at the head of the queue.  And set_audio_config is idempotent:
\* applied in a configured state it changes nothing.
C25_UnconfiguredFramesAreDropped ==
    [][/\ (ProcessAudio /\ ~audio_configured)
            => (UNCHANGED <<dgVars, flagVars>> /\ status_out' # "error")
       /\ \A f \in 1..MaxFrames :
            /\ (f \in FramesIn(dg_audio_queue') /\ f \notin FramesIn(dg_audio_queue))
                  => (ProcessAudio /\ audio_configured /\ f = next_frame)
            /\ dg_out' = Media(f) => (dg_audio_queue # <<>> /\ Head(dg_audio_queue) = f)
       /\ (SetAudioConfig /\ audio_configured) => UNCHANGED progVars]_vars

\* a frame was dropped in a listening session only because the audio was
\* not configured
C25_Witness ==
    /\ session_active /\ is_listening /\ ~pause_audio_sending
    /\ ~audio_configured
    /\ next_frame > 1
    /\ dg_audio_queue = NoQueue
    /\ ~dg_worker_task

\* C26: the transcript buffer is empty whenever _ignore_transcripts is true:
\* it is cleared in the step that accepts an end of turn and nothing is
\* appended while transcripts are ignored; and it is empty after every
\* accepted ready_to_listen.
C26_BufferEmptyWhileIgnoring ==
    [][/\ ignore_transcripts' => transcript_buffer' = <<>>
       /\ ignore_transcripts => Len(transcript_buffer') <= Len(transcript_buffer)
       /\ (RendererReadyToListen /\ session_active /\ ~avatar_turn_active)
            => transcript_buffer' = <<>>]_vars

\* a second end of turn has been accepted, after the first turn ended and
\* a ready_to_listen was accepted
C26_Witness ==
    /\ ignore_transcripts
    /\ Len(tasks) = 2
    /\ tasks[1].pc = "done"
    /\ tasks[2].pc = "sched"
    /\ transcript_buffer = <<>>

\* C27: stale audio is discarded, never delivered.  No frame is sent while
\* the gate is paused, and the queue holds no frame at the moment the gate
\* is re-opened, so that a frame queued when the end of turn was accepted,
\* or during the avatar's turn, cannot be sent after listening resumes.
C27_StaleAudioIsDiscarded ==
    [][/\ pause_audio_sending => \A f \in 1..MaxFrames : dg_out' # Media(f)
       /\ (pause_audio_sending /\ ~pause_audio_sending')
            => FramesIn(dg_audio_queue') = {}]_vars


\* the messages _handle_user_turn sends to the renderer
TurnMessages == {"turn_start", "text_input", "text_append", "text_stream_done"}

\* the step is a resumption of the turn task t (not its cancellation)
TurnStepOf(t) ==
    /\ t \in DOMAIN tasks
    /\ tasks'[t] # tasks[t]
    /\ tasks'[t].pc # "cancelled"

\* C28: the messages of one turn are sent in order.  Only a step of a turn
\* task sends turn_start, text_input, text_append or text_stream_done.  The
\* first step of the task empties the audio queue, sends Finalize exactly when
\* the detector is Nova with a connection, and pushes 'thinking', sending
\* nothing to the renderer; the second step sends turn_start or nothing, and
\* turn_start only with use_pregen; in the generation loop text_input is sent
\* exactly for the first sentence, text_append for each later one, and
\* text_stream_done only after a sentence, ending the loop; with the renderer
\* connected every step after the first sentence appends or finishes; the
\* step after text_stream_done sends nothing and ends the task.
C28_TurnMessagesInOrder ==
    [][/\ (av_out' \in TurnMessages) => (\E t \in DOMAIN tasks : TurnStepOf(t))
       /\ \A t \in DOMAIN tasks : TurnStepOf(t) =>
            /\ (tasks[t].pc = "sched") =>
                  /\ tasks'[t].pc = "thinking"
                  /\ FramesIn(dg_audio_queue') = {}
                  /\ (dg_out' = Finalize) <=> (asr_model = "nova" /\ dg_connection)
                  /\ status_out' = "thinking"
                  /\ av_out' = "none"
            /\ (tasks[t].pc = "thinking") =>
                  /\ tasks'[t].pc = "gen"
                  /\ av_out' \in {"turn_start", "none"}
                  /\ (av_out' = "turn_start") => use_pregen
            /\ (tasks[t].pc = "gen") =>
                  /\ av_out' # "turn_start"
                  /\ (av_out' = "text_input") <=> (tasks[t].sent = 0 /\ tasks'[t].sent = 1)
                  /\ (av_out' = "text_append") <=>
                        (tasks[t].sent > 0 /\ tasks'[t].sent = tasks[t].sent + 1)
                  /\ (av_out' = "text_stream_done") =>
                        (tasks[t].sent > 0 /\ tasks'[t].pc = "finish")
                  /\ (tasks[t].sent > 0 /\ CanSend) =>
                        av_out' \in {"text_append", "text_stream_done"}
            /\ (tasks[t].pc = "finish") =>
                  /\ av_out' = "none"
                  /\ tasks'[t].pc = "done"]_vars

\* a turn with pregen that sent text_input, text_append and text_stream_done
C28_Witness ==
    /\ use_pregen
    /\ av_out = "text_stream_done"
    /\ \E t \in DOMAIN tasks : tasks[t].pc = "finish" /\ tasks[t].sent = MaxSentences


\* C30: the step of a turn task after 'thinking' sends turn_start exactly
\* when use_pregen is set and the renderer is connected, sends nothing else,
\* and always leaves the task at the generation request, with the flags of
\* the turn unchanged: a turn_start that cannot be sent does not end the turn.
C30_PregenDoesNotGateGeneration ==
    [][\A t \in DOMAIN tasks : (TurnStepOf(t) /\ tasks[t].pc = "thinking") =>
            /\ (av_out' = "turn_start") <=> (use_pregen /\ CanSend)
            /\ av_out' \in {"turn_start", "none"}
            /\ tasks'[t].pc = "gen"
            /\ t \in pending_tasks'
            /\ UNCHANGED flagVars
            /\ status_out' = "none"]_vars

\* pregen is enabled, the renderer's connection is lost and the turn task has
\* gone on to the generation request without sending anything
C30_Witness ==
    /\ use_pregen /\ ~CanSend /\ session_active
    /\ av_out = "none" /\ status_out = "none"
    /\ avatar_turn_active
    /\ \E t \in DOMAIN tasks : tasks[t].pc = "gen" /\ tasks[t].sent = 0


\* the step sends the text_input of the turn
SendsTextInput == first_sentence /\ ~first_sentence'
\* the tag try_extract_expression has extracted in this run, <<>> for none
ExtractedTag ==
    IF gen.expression_extracted THEN ExpressionMatch(reply_all).expression ELSE <<>>

\* C29: in fixed mode every text_input carries the expression the session
\* was started with, and current_expression changes only when a session is
\* started.  In expressive mode the text_input carries the tag extracted in
\* the turn if there is one and the current expression otherwise, and
\* current_expression changes within a session only to the tag extracted in
\* the turn.
C29_ExpressionResolution ==
    [][/\ (SendsTextInput /\ ~expressive_mode) => (input_expression' = session_expression)
       /\ (~expressive_mode /\ session_expression' = session_expression)
             => (current_expression' = current_expression)
       /\ (SendsTextInput /\ expressive_mode)
             => (input_expression' = IF ExtractedTag # <<>> THEN ExtractedTag
                                     ELSE current_expression)
       /\ (expressive_mode /\ session_expression' = session_expression
              /\ current_expression' # current_expression)
             => (ExtractedTag # <<>> /\ current_expression' = ExtractedTag)]_vars


\* the states the renderer reports
RendererStates == thinking_states \cup speaking_states \cup {"silence"}

\* the step is the except branch of a turn task (737-743)
TurnErrorStep ==
    \E t \in DOMAIN tasks :
        /\ TurnStepOf(t)
        /\ tasks[t].pc = "gen" /\ tasks'[t].pc = "done"
        /\ ~CanSend
        /\ is_listening' /\ ~avatar_turn_active'

\* C31: a renderer state change to a thinking state pushes 'thinking' and
\* one to a speaking state pushes 'speaking', both with is_listening false
\* afterwards; a change to another state pushes nothing and changes nothing
\* of the orchestrator.  'listening' is pushed only by a ready_to_listen that
\* is accepted (active session, no turn of the orchestrator's in progress) and
\* turns is_listening from false to true, or by the except branch of a turn.
C31_StatusProjection ==
    [][/\ \A to \in RendererStates : RendererStateChange(to) =>
             /\ (to \in thinking_states) => (status_out' = "thinking" /\ ~is_listening')
             /\ (to \in speaking_states) => (status_out' = "speaking" /\ ~is_listening')
             /\ (to \notin thinking_states \cup speaking_states)
                   => (status_out' = "none" /\ UNCHANGED progVars)
       /\ (status_out' = "listening") =>
             \/ /\ RendererReadyToListen
                /\ session_active /\ ~avatar_turn_active
                /\ ~is_listening /\ is_listening'
             \/ TurnErrorStep]_vars

\* a listening session without a turn was told that the renderer speaks
C31_Witness ==
    /\ status_out = "speaking" /\ ~is_listening
    /\ session_active /\ ~ignore_transcripts /\ ~pause_audio_sending
    /\ tasks = <<>> /\ audio_configured


\* C32: a detector failure is surfaced.  Whenever an active session has
\* stopped listening with the detector failed or closed while 'listening' is
\* the last status the browser was sent, eventually another status or an
\* error event is sent (or the session listens again or is stopped).
C32_DetectorFailureIsSurfaced ==
    (session_active /\ ~is_listening /\ listening_shown
        /\ (dg_fatal_error \/ ~dg_connection))
      ~> (~listening_shown \/ is_listening \/ ~session_active)


\* C33: a turn task that ends with an exception affects nothing else.  The
\* step in which it raises leaves session_active and the other tasks as
\* they are; the completion hook removes it from _pending_tasks; a task that
\* is done or cancelled is not in _pending_tasks; stop_session never raises,
\* and when it has returned _pending_tasks is empty and the renderer is
\* disconnected.
C33_TaskFaultDoesNotPropagate ==
    [][/\ \A t \in DOMAIN tasks : (tasks[t].pc # "raised" /\ tasks'[t].pc = "raised") =>
             /\ session_active' = session_active
             /\ \A u \in DOMAIN tasks \ {t} : tasks'[u] = tasks[u]
       /\ \A t \in DOMAIN tasks : TaskDoneRaised(t) => (t \notin pending_tasks')
       /\ \A t \in DOMAIN tasks' :
             (tasks'[t].pc \in {"done", "cancelled"}) => (t \notin pending_tasks')
       /\ stop_pc' # "failed"
       /\ (stop_pc' = "returned") => (pending_tasks' = {} /\ ~av_connected')]_vars


\* the step starts no turn and leaves the listening state, the audio queue
\* and the history as they are
NoTurnStarted ==
    /\ tasks' = tasks /\ pending_tasks' = pending_tasks
    /\ UNCHANGED <<is_listening, ignore_transcripts, pause_audio_sending,
                   avatar_turn_active, dg_audio_queue, conversation_history>>
    /\ status_out' = "none" /\ av_out' = "none" /\ dg_out' = Nothing

\* C34: an end-of-turn signal without text starts no turn.  A Flux EndOfTurn
\* whose transcript and accumulated buffer are both empty after trimming, and
\* a Nova UtteranceEnd whose buffer is empty after trimming, schedule no task
\* and leave is_listening, _ignore_transcripts, _pause_audio_sending, the
\* audio queue and the history unchanged.
C34_EmptyEndOfTurnStartsNoTurn ==
    [][/\ \A text \in Texts :
             (FluxTurnInfo("EndOfTurn", text) /\ Strip(text) = <<>>
                  /\ Strip(Join(transcript_buffer)) = <<>>) => NoTurnStarted
       /\ (NovaUtteranceEnd /\ Strip(Join(transcript_buffer)) = <<>>) => NoTurnStarted]_vars

\* a listening Flux session has taken a blank transcript into its buffer
\* and started no turn
C34_Witness ==
    /\ session_active /\ is_listening /\ asr_model = "flux" /\ listen_pc = "running"
    /\ ~ignore_transcripts /\ ~pause_audio_sending
    /\ transcript_buffer = <<<<" ">>>> /\ tasks = <<>>


\* the step creates an audio worker task
WorkerCreated == worker_pc' = "connect" /\ worker_pc # "connect"

\* C35: at most one audio worker runs.  A worker task is created only by
\* process_audio, only when no worker task exists that is not done, and it
\* is given the audio queue that exists, with what it holds; a frame
\* processed while a worker is not done creates none.
C35_AtMostOneWorker ==
    [][/\ WorkerCreated =>
             /\ ProcessAudio
             /\ ~(dg_worker_task /\ WorkerLive)
             /\ dg_worker_task'
             /\ (dg_audio_queue # NoQueue)
                   => (dg_audio_queue' = Append(dg_audio_queue, next_frame))
       /\ (ProcessAudio /\ dg_worker_task /\ WorkerLive)
             => UNCHANGED <<worker_pc, dg_worker_task>>]_vars

\* a replacement worker is connecting: the listener of the previous worker
\* has ended and the queue of the session is in use again
C35_Witness ==
    /\ session_active /\ is_listening
    /\ worker_pc = "connect" /\ dg_worker_task
    /\ listen_pc = "done"
    /\ dg_audio_queue # NoQueue /\ next_frame = 3


\* the history h consists of complete exchanges: a user entry, then the
\* assistant entry of the same turn
Paired(h) ==
    /\ Len(h) % 2 = 0
    /\ \A i \in 1..Len(h) : h[i].role = IF i % 2 = 1 THEN "user" ELSE "assistant"

\* C36: whenever a generation request is built (the generator is entered
\* and copies conversation_history into the request), the history consists
\* of complete exchanges; a run of the generator that fails or times out
\* leaves the history unchanged.
C36_HistoryHoldsCompleteExchanges ==
    [][/\ (stream_pc' = "open" /\ stream_pc # "open") => Paired(conversation_history')
       /\ (stream_pc = "open" /\ stream_failed' # "none")
             => (conversation_history' = conversation_history)]_vars


\* C37: the renderer's first ready_to_listen is not lost.  If it was
\* handled while start_session was awaiting the send of session_start, then
\* once start_session has returned with the session active the orchestrator
\* eventually listens (or the session is stopped or the renderer's
\* connection is lost).
C37_EarlyReadyToListenIsKept ==
    (ready_before_active /\ app_pc = "running" /\ session_active)
        ~> (is_listening \/ ~session_active \/ ~av_connected)


\* C38: once stop_session has begun the session never listens again.  The
\* step that begins it leaves is_listening false, and from then on no step
\* sets is_listening, pushes 'listening', puts an audio frame into the queue
\* or sends one to the detector.
C38_NoListeningAfterStop ==
    [][/\ (stop_pc = "idle" /\ stop_pc' # "idle") => ~is_listening'
       /\ (stop_pc # "idle") =>
             /\ ~is_listening'
             /\ status_out' # "listening"
             /\ FramesIn(dg_audio_queue') \subseteq FramesIn(dg_audio_queue)
             /\ \A f \in 1..MaxFrames : dg_out' # Media(f)]_vars

\* the waits of a call of _reconnect: the first is initial_backoff, each
\* later one is the double of the one before or max_backoff if that is less
WaitsDoubleToCap(w) ==
    \A k \in 1..Len(w) :
        /\ w[k] <= connector.max_backoff
        /\ w[k] = IF k = 1 THEN connector.initial_backoff
                  ELSE Min(2 * w[k - 1], connector.max_backoff)

\* a step in which a call of _reconnect by c returns
ReconnectReturns(c) == callers'[c].returns # callers[c].returns

=============================================================================
